---- MODULE Spec2Model ----
(***************************************************************************)
(* A model of the photo frame assistant: the display codec                 *)
(* (src/imgToArray.py: img_to_array, img_to_rgb565, img_to_epaper_4bit),   *)
(* the database scripts (src/scripts/migrate_playlist_structure.py,        *)
(* src/db_manager.py) and the methods of the model (src/model.py).         *)
(*                                                                         *)
(* The specifications share the variables:                                 *)
(*   Spec        one conversion call followed through its stages on the    *)
(*               image geometry (sizes, crop box, output length, errors);  *)
(*   SpecPixel   the colour stages of the three encoders on the pixels of  *)
(*               a small fitted image: quantize, code map and nibble pack  *)
(*               of the paletted encoders, the RGB565 words and bytes;     *)
(*   SpecInvalid img_to_rgb565 called with a target side of zero;          *)
(*   SpecDemo    the paletted encoders beside                              *)
(*               generate_demonstration_images on the same geometry;       *)
(*   SpecCalls   two conversion calls interleaved step by step over a      *)
(*               heap of image and array objects;                          *)
(*   SpecProfile a conversion made for a display profile;                  *)
(*   SpecMigrate migrate_db on the playlist tables, commit by commit,      *)
(*               killed and run again;                                     *)
(*   SpecManager db_manager.main by its arguments;                         *)
(*   SpecSync    SyncGroup.get_next_sync_time for two frames of a group;   *)
(*   SpecSleep   is_in_deep_sleep at every hour;                           *)
(*   SpecStatus  PhotoFrame.get_status.                                    *)
(***************************************************************************)
EXTENDS Integers, Sequences, FiniteSets, TLC

(***************************************************************************)
(* Bounds of the model.                                                    *)
(***************************************************************************)
\* source images have sides 1..MaxSmallSide, or one of ScenarioSides
MaxSmallSide == 3
\* img_to_rgb565 is called with target sides 1..MaxTarget
MaxTarget == 3
\* the pixels are followed through images of at most MaxPixels pixels
MaxPixels == 4

(***************************************************************************)
(* The state.                                                              *)
(***************************************************************************)
VARIABLES
  pc,             \* the stage the call has reached
  encoder,        \* the function called
  orientation,    \* its orientation argument ("none": img_to_rgb565 has none)
  swap_bytes,     \* img_to_rgb565's swap_bytes argument
  source,         \* the size of the caller's image
  target_width,   \* the target size: an argument of img_to_rgb565, the
  target_height,  \*   e-paper panel's size in the two paletted encoders
  image,          \* the size of the local `image` as the call proceeds
  angle,          \* the angle the image was rotated by, in degrees
  new_width,      \* the size the image is resized to (0 before the resize)
  new_height,
  box,            \* the crop box <<left, top, right, bottom>> (<<>>: no crop)
  out_len,        \* the length of the byte string returned (-1: none yet)
  error,          \* the exception the call raised ("none": none)
  \* the pixels, where they are followed (SpecPixel):
  pixels,         \* the image's colours <<r, g, b>>, row by row
  indexed,        \* the quantized image: a palette index for each pixel
  dithered,       \* the colour the quantizer looked up for each pixel
  code_array,     \* img_to_epaper_4bit: the 4-bit code of each pixel (flat)
  buf,            \* the output buffer
  idx,            \* img_to_array: the pack loop's position in buf
  rgb565,         \* img_to_rgb565: the 16-bit word of each pixel
  byteorder,      \* the host's byte order (sys.byteorder)
  out,            \* the bytes returned
  \* concurrent calls, where they are followed (SpecCalls):
  heap,           \* the objects the calls hold: their mode, width and data
  frame,          \* the locals of each call
  \* the server's database and its scripts (SpecMigrate, SpecManager):
  db,             \* app.db: its tables, their columns and rows, as committed
  db0,            \* app.db as it was before the first run of the migration
  mig,            \* migrate_db of migrate_playlist_structure: position, locals
  cli,            \* db_manager.main: arguments, the database file, position
  \* the model's methods (SpecSync, SpecStatus, SpecSleep):
  sync,           \* SyncGroup.get_next_sync_time: the group, base times, results
  photo_frame,    \* the PhotoFrame row get_status and is_in_deep_sleep are given
  status          \* current_time, and what the two functions returned

argVars  == <<encoder, orientation, swap_bytes, source, target_width, target_height>>
geomVars == <<image, angle, new_width, new_height, box>>
pixVars  == <<pixels, indexed, dithered, code_array, buf, idx, rgb565, byteorder, out>>
callVars == <<heap, frame>>
soloVars == <<pc, argVars, geomVars, out_len, error, pixVars>>
dbVars   == <<db, db0, mig, cli>>
rowVars  == <<sync, photo_frame, status>>
appVars  == <<dbVars, rowVars>>
codecVars == <<soloVars, callVars>>
vars     == <<soloVars, callVars, appVars>>

(***************************************************************************)
(* Python floats: IEEE-754 binary64, round to nearest, ties to even.       *)
(* A positive float is [e |-> E, m |-> M]: M is the sequence of its        *)
(* MantBits significant bits, most significant (always 1) first, and its   *)
(* value is  M * 2^(E - (MantBits - 1)),  so 2^E <= value < 2^(E+1).       *)
(* Zero is [e |-> 0, m |-> <<>>].  Only positive operands occur.           *)
(***************************************************************************)
MantBits == 53

FZero == [e |-> 0, m |-> <<>>]

RECURSIVE BitLen(_)
\* the number of binary digits of n (0 for 0); at most 31 steps
BitLen(n) == IF n = 0 THEN 0 ELSE 1 + BitLen(n \div 2)

\* the binary digits of n, most significant first (<<>> for 0)
NatBits(n) == [i \in 1..BitLen(n) |-> (n \div 2^(BitLen(n) - i)) % 2]

RECURSIVE BitsNat(_)
\* the number a bit sequence (of at most 31 bits) denotes
BitsNat(bs) ==
  IF bs = <<>> THEN 0
  ELSE 2 * BitsNat(SubSeq(bs, 1, Len(bs) - 1)) + bs[Len(bs)]

AllOnes(bs) == \A i \in 1..Len(bs) : bs[i] = 1

\* bs + 1 on a bit sequence that is not all ones
Incr(bs) ==
  LET j == CHOOSE i \in 1..Len(bs) :
             bs[i] = 0 /\ \A k \in (i + 1)..Len(bs) : bs[k] = 1
  IN [i \in 1..Len(bs) |-> IF i < j THEN bs[i] ELSE IF i = j THEN 1 ELSE 0]

\* Round the exact value  (bs . guard . sticky) * 2^(e - (MantBits-1))
\* where bs has MantBits bits, guard is the next bit and sticky tells whether
\* anything non-zero follows it.
RoundNearestEven(e, bs, guard, sticky) ==
  IF guard = 1 /\ (sticky \/ bs[Len(bs)] = 1)
  THEN IF AllOnes(bs)
       THEN [e |-> e + 1, m |-> [i \in 1..Len(bs) |-> IF i = 1 THEN 1 ELSE 0]]
       ELSE [e |-> e, m |-> Incr(bs)]
  ELSE [e |-> e, m |-> bs]

RECURSIVE Pow2Mod(_, _)
\* 2^k mod d, by repeated squaring (d below 2^15, so no product overflows)
Pow2Mod(k, d) ==
  IF k = 0 THEN 1 % d
  ELSE LET h == Pow2Mod(k \div 2, d)
       IN IF k % 2 = 0 THEN (h * h) % d ELSE (2 * ((h * h) % d)) % d

\* long division: binary digit k (k >= 1) of rem/d after the point, for rem < d
DivDigit(rem, d, k) == (2 * ((rem * Pow2Mod(k - 1, d)) % d)) \div d

\* ... and what is left of rem after k digits
DivRem(rem, d, k) == (rem * Pow2Mod(k, d)) % d

RECURSIVE LeadShift(_, _, _)
\* for 0 < rem < d: the number s >= 1 of doublings until rem * 2^s >= d
LeadShift(rem, d, s) ==
  IF 2 * rem >= d THEN s + 1 ELSE LeadShift(2 * rem, d, s + 1)

\* a / b for ints a >= 0, b > 0 (Python's true division is correctly rounded)
FDiv(a, b) ==
  IF a = 0 THEN FZero
  ELSE
    LET q == a \div b
        r == a % b
    IN IF q > 0
       THEN LET hi  == NatBits(q)
                n   == MantBits - Len(hi)
                all == hi \o [k \in 1..(n + 1) |-> DivDigit(r, b, k)]
            IN RoundNearestEven(Len(hi) - 1, SubSeq(all, 1, MantBits),
                                all[MantBits + 1], DivRem(r, b, n + 1) # 0)
       ELSE LET s   == LeadShift(r, b, 0)
                \* r * 2^(s-1) < b <= r * 2^s : the first significant bit is digit s
                r0  == r * 2^(s - 1)
                all == [k \in 1..(MantBits + 1) |-> DivDigit(r0, b, k)]
            IN RoundNearestEven(0 - s, SubSeq(all, 1, MantBits),
                                all[MantBits + 1], DivRem(r0, b, MantBits + 1) # 0)

\* The mantissa is multiplied in limbs of 10 bits (base 1024), so that no
\* intermediate product leaves the 32-bit range for multipliers below 2^20.
\* limb j (0 the least significant) of a bit sequence
Limb(bs, j) ==
  LET lo == j * 10
      hi == IF lo + 10 > Len(bs) THEN Len(bs) ELSE lo + 10
  IN BitsNat(SubSeq(bs, Len(bs) - hi + 1, Len(bs) - lo))

\* the number of 10-bit limbs that hold MantBits bits
NumLimbs == (MantBits + 9) \div 10

RECURSIVE MulLimbs(_, _, _, _, _)
\* n * bs limb by limb: the product's limbs, least significant first, and the
\* carry out of the top limb
MulLimbs(n, bs, j, carry, acc) ==
  IF j = NumLimbs THEN [limbs |-> acc, carry |-> carry]
  ELSE LET t == n * Limb(bs, j) + carry
       IN MulLimbs(n, bs, j + 1, t \div 1024, Append(acc, t % 1024))

\* n * x for an int n >= 1 and a float x (n converts exactly, the product is rounded)
FMulInt(n, x) ==
  IF x = FZero THEN FZero
  ELSE
    LET p     == MulLimbs(n, x.m, 0, 0, <<>>)
        width == NumLimbs * 10
        \* bit at position pos (0 the least significant) of the exact product
        bit(pos) == IF pos >= width THEN (p.carry \div 2^(pos - width)) % 2
                    ELSE (p.limbs[(pos \div 10) + 1] \div 2^(pos % 10)) % 2
        top   == CHOOSE t \in 0..(width + 30) :
                   bit(t) = 1 /\ \A u \in (t + 1)..(width + 30) : bit(u) = 0
        k     == top + 1 - MantBits
        all   == [i \in 1..(top + 1) |-> bit(top + 1 - i)]
    IN IF k = 0 THEN [e |-> x.e, m |-> all]
       ELSE RoundNearestEven(x.e + k, SubSeq(all, 1, MantBits), all[MantBits + 1],
                             \E i \in (MantBits + 2)..(top + 1) : all[i] = 1)

\* x > y on positive floats or zero
FGreater(x, y) ==
  IF x = FZero THEN FALSE
  ELSE IF y = FZero THEN TRUE
  ELSE IF x.e # y.e THEN x.e > y.e
  ELSE \E i \in 1..MantBits :
         /\ x.m[i] > y.m[i]
         /\ \A j \in 1..(i - 1) : x.m[j] = y.m[j]

\* Python's max(x, y): the first argument unless the second is greater
FMax(x, y) == IF FGreater(y, x) THEN y ELSE x

\* int(x): truncation toward zero
FInt(x) ==
  IF x = FZero \/ x.e < 0 THEN 0
  ELSE BitsNat(SubSeq(x.m, 1, x.e + 1))

(***************************************************************************)
(* Machine integers.                                                       *)
(***************************************************************************)
RECURSIVE BitOr(_, _)
BitOr(a, b) ==
  IF a = 0 THEN b
  ELSE IF b = 0 THEN a
  ELSE (IF a % 2 = 1 \/ b % 2 = 1 THEN 1 ELSE 0) + 2 * BitOr(a \div 2, b \div 2)

RECURSIVE BitAnd(_, _)
BitAnd(a, b) ==
  IF a = 0 \/ b = 0 THEN 0
  ELSE (IF a % 2 = 1 /\ b % 2 = 1 THEN 1 ELSE 0) + 2 * BitAnd(a \div 2, b \div 2)

\* a << k and a >> k
ShiftL(a, k) == a * 2^k
ShiftR(a, k) == a \div 2^k

\* the value kept by an unsigned integer of the given width
Wrap(a, bits) == a % 2^bits

\* C's integer division, which truncates toward zero
CDiv(a, b) == IF a >= 0 THEN a \div b ELSE 0 - ((0 - a) \div b)

\* CLIP8: clamp to 0..255
Clip8(v) == IF v < 0 THEN 0 ELSE IF v > 255 THEN 255 ELSE v

(***************************************************************************)
(* Image.quantize(palette=pal_image), whose dither argument defaults to    *)
(* FLOYDSTEINBERG: Pillow's conversion of an RGB image to a palette image, *)
(* the colour lookup through the palette cache and the error diffusion     *)
(* pass.  Both paletted encoders make this call (img_to_epaper_4bit names  *)
(* the dither, img_to_array leaves it to the default).                     *)
(* A colour is <<r, g, b>>; a palette is a sequence of PaletteSize colours *)
(* and palette index i is element i + 1 of it.                             *)
(***************************************************************************)
\* putpalette is given 256 entries: the display's colours, then black
PaletteSize == 256

Black  == <<0, 0, 0>>
White  == <<255, 255, 255>>
Yellow == <<255, 255, 0>>
Red    == <<255, 0, 0>>
Blue   == <<0, 0, 255>>
Green  == <<0, 255, 0>>

\* img_to_array: Black, White, Yellow, Red, Black (duplicate), Blue, Green
Colours7 == <<Black, White, Yellow, Red, Black, Blue, Green>>
\* img_to_epaper_4bit: White, Black, Yellow, Red, Blue, Green
Colours6 == <<White, Black, Yellow, Red, Blue, Green>>

Padded(cs) == [i \in 1..PaletteSize |-> IF i <= Len(cs) THEN cs[i] ELSE Black]

Palette7 == Padded(Colours7)
Palette6 == Padded(Colours6)

PaletteOf(enc) == IF enc = "img_to_array" THEN Palette7 ELSE Palette6

Sq(x) == x * x

\* the squared distance between two colours
DistSq(p, q) == Sq(p[1] - q[1]) + Sq(p[2] - q[2]) + Sq(p[3] - q[3])

\* The cache holds one entry for each cell of 4 x 4 x 4 colours; a cell is
\* looked up at its lowest corner.
CellOf(c) == <<c[1] - (c[1] % 4), c[2] - (c[2] % 4), c[3] - (c[3] % 4)>>

\* A cache miss fills the box of 8 x 8 x 8 cells (32 colour values a side)
\* that holds the colour.
BoxLo(v) == v - (v % 32)
BoxHi(v) == BoxLo(v) + 31

\* the distance of a palette channel value p from the box side lo..hi that
\* the cache update takes as the least
ChanMin(p, lo, hi) == IF p < lo THEN Sq(p - hi) ELSE IF p > hi THEN Sq(p - lo) ELSE 0
\* ... and as the greatest
ChanMax(p, lo, hi) == IF p <= (lo + hi) \div 2 THEN Sq(p - hi) ELSE Sq(p - lo)

BoxMin(p, c) ==
  ChanMin(p[1], BoxLo(c[1]), BoxHi(c[1])) + ChanMin(p[2], BoxLo(c[2]), BoxHi(c[2]))
    + ChanMin(p[3], BoxLo(c[3]), BoxHi(c[3]))
BoxMax(p, c) ==
  ChanMax(p[1], BoxLo(c[1]), BoxHi(c[1])) + ChanMax(p[2], BoxLo(c[2]), BoxHi(c[2]))
    + ChanMax(p[3], BoxLo(c[3]), BoxHi(c[3]))

SetMin(S) == CHOOSE x \in S : \A y \in S : x <= y

CloserOrEqual(d, best) == d <= best

\* is distance d a replacement for the best distance so far
Closer(d, best) == d < best

\* the colours a palette holds
Entries(pal) == {pal[i] : i \in 1..Len(pal)}

\* The palette index the cache gives for colour c: among the entries whose
\* least distance to the box is within the smallest greatest distance of any
\* entry, the first one that no other is closer to the cell than.
Lookup(pal, c) ==
  LET cell == CellOf(c)
      cols == Entries(pal)
      dmax == SetMin({BoxMax(p, c) : p \in cols})
      near == {p \in cols : BoxMin(p, c) <= dmax}
      cand == {i \in 1..Len(pal) : pal[i] \in near}
      won(i) == /\ \A j \in cand : j < i => Closer(DistSq(pal[i], cell), DistSq(pal[j], cell))
                /\ \A j \in cand : j > i => ~Closer(DistSq(pal[j], cell), DistSq(pal[i], cell))
  IN (CHOOSE i \in cand : won(i)) - 1

Zero3 == <<0, 0, 0>>

Plus3(a, b)  == <<a[1] + b[1], a[2] + b[2], a[3] + b[3]>>
Minus3(a, b) == <<a[1] - b[1], a[2] - b[2], a[3] - b[3]>>
Times3(k, a) == <<k * a[1], k * a[2], k * a[3]>>

\* the colour that is looked up for a pixel: the pixel plus a sixteenth of
\* the error carried along the row and of the error left by the row above
Diffused(in, run, above) ==
  <<Clip8(in[1] + CDiv(run[1] + above[1], 16)),
    Clip8(in[2] + CDiv(run[2] + above[2], 16)),
    Clip8(in[3] + CDiv(run[3] + above[3], 16))>>

QuantErrorNotReduced(v, p) == v

\* the error of a pixel: the colour looked up less the palette colour chosen
QuantError(v, p) == Minus3(v, p)

\* the error the row's last pixel leaves for the row below: the three
\* accumulators of the blue channel
RowEnd(c0, c1, err) == <<c0[3], c1[3], err[3]>>

RECURSIVE DitherFrom(_, _, _, _, _, _, _, _, _)
\* The error diffusion pass from pixel k (0 the first, row by row) on:
\* run, c0, c1 are the accumulators of the current row, errors the w + 1
\* errors left for the row below, idx and val what was emitted so far.
DitherFrom(pal, px, w, k, run, c0, c1, errors, acc) ==
  IF k = Len(px) THEN acc
  ELSE
    LET x    == k % w
        run0 == IF x = 0 THEN Zero3 ELSE run
        c00  == IF x = 0 THEN Zero3 ELSE c0
        c10  == IF x = 0 THEN Zero3 ELSE c1
        v    == Diffused(px[k + 1], run0, errors[x + 2])
        i    == Lookup(pal, v)
        err  == QuantError(v, pal[i + 1])
        c0n  == Plus3(Times3(5, err), c10)
        e1   == [errors EXCEPT ![x + 1] = Plus3(Times3(3, err), c00)]
        e2   == IF x = w - 1 THEN [e1 EXCEPT ![w + 1] = RowEnd(c0n, err, err)] ELSE e1
    IN DitherFrom(pal, px, w, k + 1, Times3(7, err), c0n, err, e2,
                  [idx |-> Append(acc.idx, i), val |-> Append(acc.val, v)])

\* the palette indices of an image of width w, and the colours looked up
Dither(pal, px, w) ==
  DitherFrom(pal, px, w, 0, Zero3, Zero3, Zero3, [j \in 1..(w + 1) |-> Zero3],
             [idx |-> <<>>, val |-> <<>>])

(***************************************************************************)
(* The geometry of a conversion call.                                      *)
(***************************************************************************)
\* the e-paper panel: target_width, target_height = 1200, 1600
EpaperWidth  == 1200
EpaperHeight == 1600

\* the defaults of img_to_rgb565's target_width and target_height
DefaultRgbWidth  == 320
DefaultRgbHeight == 240

Encoders == {"img_to_array", "img_to_rgb565", "img_to_epaper_4bit"}
Paletted == {"img_to_array", "img_to_epaper_4bit"}

\* sides of the source images: the small ones, the spec's 800x600 scenario,
\* the panel's own size, and sides at which a scaled side is not an integer
ScenarioSides == {47, 49, 97, 291, 388, 483, 644, 600, 800, 1200, 1600}
SrcSides      == (1..MaxSmallSide) \cup ScenarioSides

Orientations == {"portrait", "landscape", "Landscape"}

\* str.lower() on the orientations
Lower(s) == IF s = "Landscape" THEN "landscape" ELSE s

Size(w, h) == [width |-> w, height |-> h]

\* Transpose.ROTATE_90
RotateAngle == 90

\* image.transpose(ROTATE_90): the sides change places
Rotate90(im) == Size(im.height, im.width)

\* resize_ratio = max(target_width / image.width, target_height / image.height)
ResizeRatio(im, tw, th) == FMax(FDiv(tw, im.width), FDiv(th, im.height))

\* new_width = int(image.width * resize_ratio), new_height likewise
NewSize(im, tw, th) ==
  LET resize_ratio == ResizeRatio(im, tw, th)
  IN Size(FInt(FMulInt(im.width, resize_ratio)), FInt(FMulInt(im.height, resize_ratio)))

CeilDiv2(n) == IF n >= 0 THEN (n + 1) \div 2 ELSE 0 - ((0 - n) \div 2)

\* Python's floor division by 2, also of a negative number
FloorDiv2(n) == IF n >= 0 THEN n \div 2 ELSE 0 - ((1 - n) \div 2)

\* the crop box (left, top, right, bottom), centred
CropBox(nw, nh, tw, th) ==
  LET left == FloorDiv2(nw - tw)
      top  == FloorDiv2(nh - th)
  IN <<left, top, left + tw, top + th>>

\* Image.crop(box): the size of the region, whether or not it lies in the image
CropSize(b) == Size(b[3] - b[1], b[4] - b[2])

\* the target sizes img_to_rgb565 is called with
RgbTargets ==
  ((1..MaxTarget) \X (1..MaxTarget)) \cup {<<DefaultRgbWidth, DefaultRgbHeight>>}

\* the calls that run at the same time
Calls == {1, 2}

\* The objects of a call, by the name the code first binds them to: the
\* caller's image, and what the call creates.  Every constructor and every
\* Image or array method the code calls returns a new object.
ObjectNames ==
  {"source", "rgb", "rotated", "pal_image", "indexed", "code_array", "buf", "rgb565"}
Objects == Calls \X ObjectNames

\* an object that does not exist (yet)
Null == [mode |-> "none", width |-> 0, data |-> <<>>]

\* Spec, SpecPixel, SpecInvalid and SpecDemo follow one call and no heap
NoCalls ==
  /\ heap = [o \in Objects |-> Null]
  /\ frame = <<>>

\* the codec's specifications leave the database, the scripts and the model's
\* methods alone
NoApp ==
  /\ db = <<>>
  /\ db0 = <<>>
  /\ mig = <<>>
  /\ cli = <<>>
  /\ sync = <<>>
  /\ photo_frame = <<>>
  /\ status = <<>>

\* Spec follows the sizes only
PixelsNotFollowed ==
  /\ pixels = <<>>
  /\ indexed = <<>>
  /\ dithered = <<>>
  /\ code_array = <<>>
  /\ buf = <<>>
  /\ idx = 0
  /\ rgb565 = <<>>
  /\ byteorder = "little"
  /\ out = <<>>

\* the call is entered
Init ==
  /\ pc = "entry"
  /\ encoder \in Encoders
  /\ source \in {Size(w, h) : w \in SrcSides, h \in SrcSides}
  /\ image = source
  /\ IF encoder = "img_to_rgb565"
     THEN /\ orientation = "none"
          /\ swap_bytes \in BOOLEAN
          /\ \E t \in RgbTargets : target_width = t[1] /\ target_height = t[2]
     ELSE /\ orientation \in Orientations
          /\ swap_bytes = FALSE
          /\ target_width = EpaperWidth
          /\ target_height = EpaperHeight
  /\ angle = 0
  /\ new_width = 0
  /\ new_height = 0
  /\ box = <<>>
  /\ out_len = -1
  /\ error = "none"
  /\ PixelsNotFollowed
  /\ NoCalls
  /\ NoApp

\* the mode check and, in the paletted encoders, the landscape rotation
Orient ==
  /\ pc = "entry"
  /\ IF encoder \in Paletted /\ Lower(orientation) = "landscape"
     THEN image' = Rotate90(image) /\ angle' = RotateAngle
     ELSE UNCHANGED <<image, angle>>
  /\ pc' = "oriented"
  /\ UNCHANGED <<appVars, callVars, argVars, new_width, new_height, box, out_len, error, pixVars>>

\* image.size == (target_width, target_height): the resize is skipped
SkipResize ==
  /\ pc = "oriented"
  /\ image = Size(target_width, target_height)
  /\ pc' = "fitted"
  /\ UNCHANGED <<appVars, callVars, argVars, geomVars, out_len, error, pixVars>>

\* the resize to fill; Image.resize raises ValueError for a side below 1
Resize ==
  /\ pc = "oriented"
  /\ image # Size(target_width, target_height)
  /\ LET new == NewSize(image, target_width, target_height)
     IN /\ new_width' = new.width
        /\ new_height' = new.height
        /\ IF new.width < 1 \/ new.height < 1
           THEN /\ pc' = "raised"
                /\ error' = "ValueError"
                /\ image' = image
           ELSE /\ pc' = "resized"
                /\ error' = error
                /\ image' = new
  /\ UNCHANGED <<appVars, callVars, argVars, angle, box, out_len, pixVars>>

\* the image is larger than the target in a dimension: crop to the centre
Crop ==
  /\ pc = "resized"
  /\ new_width > target_width \/ new_height > target_height
  /\ box' = CropBox(new_width, new_height, target_width, target_height)
  /\ image' = CropSize(box')
  /\ pc' = "fitted"
  /\ UNCHANGED <<appVars, callVars, argVars, angle, new_width, new_height, out_len, error, pixVars>>

NoCrop ==
  /\ pc = "resized"
  /\ ~(new_width > target_width \/ new_height > target_height)
  /\ pc' = "fitted"
  /\ UNCHANGED <<appVars, callVars, argVars, geomVars, out_len, error, pixVars>>

\* image.quantize(palette=pal_image): one palette index per pixel
Quantize ==
  /\ pc = "fitted"
  /\ encoder \in Paletted
  /\ pc' = "quantized"
  /\ UNCHANGED <<appVars, callVars, argVars, geomVars, out_len, error, pixVars>>

\* len(buf) for buf = bytearray(int(image.width * image.height / 2))
ArrayBufLen(im) == (im.width * im.height) \div 2

\* the number of bytes the pack loop of img_to_array writes: one for each
\* i in range(0, len(buf_7color), 2)
ArrayWrites(im) == (im.width * im.height + 1) \div 2

\* img_to_array's pack loop: the write buf[idx] past the end of buf raises
PackArray ==
  /\ pc = "quantized"
  /\ encoder = "img_to_array"
  /\ IF ArrayWrites(image) > ArrayBufLen(image)
     THEN /\ pc' = "raised"
          /\ error' = "IndexError"
          /\ out_len' = out_len
     ELSE /\ pc' = "returned"
          /\ error' = error
          /\ out_len' = ArrayBufLen(image)
  /\ UNCHANGED <<appVars, callVars, argVars, geomVars, pixVars>>

\* buf = np.empty((flat.size + 1) // 2)
EpaperBufLen(im) == (im.width * im.height + 1) \div 2

\* numpy's broadcast of two one-dimensional shapes (-1: they do not broadcast)
BroadcastLen(a, b) == IF a = b THEN a ELSE IF a = 1 THEN b ELSE IF b = 1 THEN a ELSE -1

\* can a value of length a be assigned to a slice of length b
Assignable(a, b) == a = b \/ a = 1

\* buf[:flat.size // 2] = (flat[0::2] << 4) | flat[1::2]  for n = flat.size:
\* the even positions are (n + 1) // 2, the odd ones n // 2
NibblePackFails(n) ==
  LET both == BroadcastLen((n + 1) \div 2, n \div 2)
  IN both = -1 \/ ~Assignable(both, n \div 2)

PackEpaper ==
  /\ pc = "quantized"
  /\ encoder = "img_to_epaper_4bit"
  /\ IF NibblePackFails(image.width * image.height)
     THEN /\ pc' = "raised"
          /\ error' = "ValueError"
          /\ out_len' = out_len
     ELSE /\ pc' = "returned"
          /\ error' = error
          /\ out_len' = EpaperBufLen(image)
  /\ UNCHANGED <<appVars, callVars, argVars, geomVars, pixVars>>

\* one uint16 for each pixel of np.array(image), as bytes
Rgb565Len(im) == im.width * im.height * 2

EncodeRgb565 ==
  /\ pc = "fitted"
  /\ encoder = "img_to_rgb565"
  /\ out_len' = Rgb565Len(image)
  /\ pc' = "returned"
  /\ UNCHANGED <<appVars, callVars, argVars, geomVars, error, pixVars>>

Next ==
  \/ Orient
  \/ SkipResize
  \/ Resize
  \/ Crop
  \/ NoCrop
  \/ Quantize
  \/ PackArray
  \/ PackEpaper
  \/ EncodeRgb565

Spec == Init /\ [][Next]_vars

(***************************************************************************)
(* The pixels of a conversion call, from the fitted image on.  The colour  *)
(* stages work on whatever size the image has, so they are followed on     *)
(* images small enough for every pixel value to be enumerated.             *)
(***************************************************************************)
\* channel values of the one-pixel images
ChanValues == {0, 3, 4, 7, 8, 124, 128, 129, 248, 252, 255}
\* colours of the larger images
Colours == {Black, White, Red, <<124, 124, 124>>}

PixelValues(n) ==
  IF n = 1 THEN {<<r, g, b>> : r \in ChanValues, g \in ChanValues, b \in ChanValues}
  ELSE Colours

index_to_code_bw == <<15, 0, 11, 6, 13, 2>>

\* index_to_code = [0x0, 0xF, 0xB, 0x6, 0xD, 0x2]
index_to_code == <<0, 15, 11, 6, 13, 2>>

ArrayByteLowFirst(b7, i) ==
  IF i + 1 < Len(b7) THEN BitOr(ShiftL(b7[i + 2], 4), b7[i + 1])
  ELSE BitOr(ShiftL(1, 4), b7[i + 1])

\* (buf_7color[i] << 4) | buf_7color[i+1], and (buf_7color[i] << 4) | 1 for
\* the last of an odd number of pixels; i counts from 0
ArrayByte(b7, i) ==
  IF i + 1 < Len(b7) THEN BitOr(ShiftL(b7[i + 1], 4), b7[i + 2])
  ELSE BitOr(ShiftL(b7[i + 1], 4), 1)

\* (flat[0::2] << 4) | flat[1::2] on uint8, element k (from 1) of the result
NibblePair(hi, lo) == BitOr(Wrap(ShiftL(hi, 4), 8), lo)

\* the buffer img_to_epaper_4bit packs for flat of even size or of size 1
NibbleBuf(flat) ==
  [k \in 1..((Len(flat) + 1) \div 2) |->
     IF 2 * k <= Len(flat) THEN NibblePair(flat[2 * k - 1], flat[2 * k])
     ELSE NibblePair(flat[Len(flat)], 0)]

Rgb565GreenFive(c) ==
  BitOr(BitOr(Wrap(ShiftL(BitAnd(c[1], 248), 8), 16),
              Wrap(ShiftL(BitAnd(c[2], 248), 3), 16)),
        ShiftR(c[3], 3))

Rgb565Unmasked(c) ==
  BitOr(BitOr(Wrap(ShiftL(c[1], 8), 16), Wrap(ShiftL(c[2], 3), 16)), ShiftR(c[3], 3))

\* ((r & 0xF8) << 8) | ((g & 0xFC) << 3) | (b >> 3) on uint16
Rgb565Value(c) ==
  BitOr(BitOr(Wrap(ShiftL(BitAnd(c[1], 248), 8), 16),
              Wrap(ShiftL(BitAnd(c[2], 252), 3), 16)),
        ShiftR(c[3], 3))

SwapWordLowTwice(v) == BitOr(Wrap(ShiftL(BitAnd(v, 255), 8), 16), BitAnd(v, 255))

\* ((rgb565 & 0xFF) << 8) | ((rgb565 >> 8) & 0xFF) on uint16
SwapWord(v) == BitOr(Wrap(ShiftL(BitAnd(v, 255), 8), 16), BitAnd(ShiftR(v, 8), 255))

\* the two bytes of a uint16 in memory
WordBytes(v, order) ==
  IF order = "little" THEN <<v % 256, v \div 256>> ELSE <<v \div 256, v % 256>>

\* ndarray.tobytes() of uint16 words
ToBytes(ws, order) ==
  [k \in 1..(2 * Len(ws)) |-> WordBytes(ws[(k + 1) \div 2], order)[2 - (k % 2)]]

Shapes == {Size(w, h) : w \in 1..MaxPixels, h \in 1..MaxPixels}

\* a fitted image enters the colour stage of an encoder
InitPixel ==
  /\ pc = "fitted"
  /\ encoder \in Encoders
  /\ image \in {sh \in Shapes : sh.width * sh.height <= MaxPixels}
  /\ pixels \in [1..(image.width * image.height) -> PixelValues(image.width * image.height)]
  /\ source = image
  /\ target_width = image.width
  /\ target_height = image.height
  /\ IF encoder = "img_to_rgb565"
     THEN /\ orientation = "none"
          /\ swap_bytes \in BOOLEAN
          /\ byteorder \in {"little", "big"}
     ELSE /\ orientation = "portrait"
          /\ swap_bytes = FALSE
          /\ byteorder = "little"
  /\ angle = 0
  /\ new_width = 0
  /\ new_height = 0
  /\ box = <<>>
  /\ out_len = -1
  /\ error = "none"
  /\ indexed = <<>>
  /\ dithered = <<>>
  /\ code_array = <<>>
  /\ buf = <<>>
  /\ idx = 0
  /\ rgb565 = <<>>
  /\ out = <<>>
  /\ NoCalls
  /\ NoApp

\* image.convert("RGB").quantize(palette=pal_image [, dither=FLOYDSTEINBERG])
QuantizePixels ==
  /\ pc = "fitted"
  /\ encoder \in Paletted
  /\ LET d == Dither(PaletteOf(encoder), pixels, image.width)
     IN /\ indexed' = d.idx
        /\ dithered' = d.val
  /\ pc' = "quantized"
  /\ UNCHANGED <<appVars, callVars, argVars, geomVars, out_len, error, pixels, code_array, buf, idx,
                 rgb565, byteorder, out>>

\* img_to_array: buf = bytearray(int(image.width * image.height / 2)); idx = 0
AllocBuf ==
  /\ pc = "quantized"
  /\ encoder = "img_to_array"
  /\ buf' = [k \in 1..ArrayBufLen(image) |-> 0]
  /\ idx' = 0
  /\ pc' = "packing"
  /\ UNCHANGED <<appVars, callVars, argVars, geomVars, out_len, error, pixels, indexed, dithered,
                 code_array, rgb565, byteorder, out>>

\* img_to_array: one turn of the pack loop, i = 2 * idx
PackStep ==
  /\ pc = "packing"
  /\ 2 * idx < Len(indexed)
  /\ IF idx >= Len(buf)
     THEN /\ pc' = "raised"
          /\ error' = "IndexError"
          /\ UNCHANGED <<buf, idx>>
     ELSE IF ArrayByte(indexed, 2 * idx) > 255
     THEN /\ pc' = "raised"
          /\ error' = "ValueError"
          /\ UNCHANGED <<buf, idx>>
     ELSE /\ buf' = [buf EXCEPT ![idx + 1] = ArrayByte(indexed, 2 * idx)]
          /\ idx' = idx + 1
          /\ UNCHANGED <<pc, error>>
  /\ UNCHANGED <<appVars, callVars, argVars, geomVars, out_len, pixels, indexed, dithered, code_array,
                 rgb565, byteorder, out>>

\* img_to_array: return bytes(buf)
ReturnArray ==
  /\ pc = "packing"
  /\ 2 * idx >= Len(indexed)
  /\ out' = buf
  /\ out_len' = Len(buf)
  /\ pc' = "returned"
  /\ UNCHANGED <<appVars, callVars, argVars, geomVars, error, pixels, indexed, dithered, code_array,
                 buf, idx, rgb565, byteorder>>

\* img_to_epaper_4bit: code_array = index_to_code[idx_array]; flat
MapCodes ==
  /\ pc = "quantized"
  /\ encoder = "img_to_epaper_4bit"
  /\ IF \E k \in 1..Len(indexed) : indexed[k] >= Len(index_to_code)
     THEN /\ pc' = "raised"
          /\ error' = "IndexError"
          /\ UNCHANGED code_array
     ELSE /\ code_array' = [k \in 1..Len(indexed) |-> index_to_code[indexed[k] + 1]]
          /\ pc' = "mapped"
          /\ UNCHANGED error
  /\ UNCHANGED <<appVars, callVars, argVars, geomVars, out_len, pixels, indexed, dithered, buf, idx,
                 rgb565, byteorder, out>>

\* img_to_epaper_4bit: the pack, the pad of an odd size, return bytes(buf)
PackNibbles ==
  /\ pc = "mapped"
  /\ IF NibblePackFails(Len(code_array))
     THEN /\ pc' = "raised"
          /\ error' = "ValueError"
          /\ UNCHANGED <<buf, out, out_len>>
     ELSE /\ buf' = NibbleBuf(code_array)
          /\ out' = buf'
          /\ out_len' = Len(buf')
          /\ pc' = "returned"
          /\ UNCHANGED error
  /\ UNCHANGED <<appVars, callVars, argVars, geomVars, pixels, indexed, dithered, code_array, idx,
                 rgb565, byteorder>>

\* img_to_rgb565: the word of each pixel
EncodeWords ==
  /\ pc = "fitted"
  /\ encoder = "img_to_rgb565"
  /\ rgb565' = [k \in 1..Len(pixels) |-> Rgb565Value(pixels[k])]
  /\ pc' = "encoded"
  /\ UNCHANGED <<appVars, callVars, argVars, geomVars, out_len, error, pixels, indexed, dithered,
                 code_array, buf, idx, byteorder, out>>

\* img_to_rgb565: if swap_bytes, the two bytes of each word change places
SwapBytes ==
  /\ pc = "encoded"
  /\ swap_bytes
  /\ rgb565' = [k \in 1..Len(rgb565) |-> SwapWord(rgb565[k])]
  /\ pc' = "swapped"
  /\ UNCHANGED <<appVars, callVars, argVars, geomVars, out_len, error, pixels, indexed, dithered,
                 code_array, buf, idx, byteorder, out>>

NoSwap ==
  /\ pc = "encoded"
  /\ ~swap_bytes
  /\ pc' = "swapped"
  /\ UNCHANGED <<appVars, callVars, argVars, geomVars, out_len, error, pixVars>>

\* img_to_rgb565: return rgb565.astype(np.uint16).tobytes()
ReturnWords ==
  /\ pc = "swapped"
  /\ out' = ToBytes(rgb565, byteorder)
  /\ out_len' = Len(out')
  /\ pc' = "returned"
  /\ UNCHANGED <<appVars, callVars, argVars, geomVars, error, pixels, indexed, dithered, code_array,
                 buf, idx, rgb565, byteorder>>

NextPixel ==
  \/ QuantizePixels
  \/ AllocBuf
  \/ PackStep
  \/ ReturnArray
  \/ MapCodes
  \/ PackNibbles
  \/ EncodeWords
  \/ SwapBytes
  \/ NoSwap
  \/ ReturnWords

SpecPixel == InitPixel /\ [][NextPixel]_vars

(***************************************************************************)
(* img_to_rgb565 called with a target of no pixels: the code has no check  *)
(* of its target arguments, so the call runs the same stages.              *)
(***************************************************************************)
\* target sizes with target_width * target_height = 0
ZeroTargets == {t \in (0..MaxTarget) \X (0..MaxTarget) : t[1] * t[2] = 0}

InitInvalid ==
  /\ pc = "entry"
  /\ encoder = "img_to_rgb565"
  /\ source \in {Size(w, h) : w \in SrcSides, h \in SrcSides}
  /\ image = source
  /\ orientation = "none"
  /\ swap_bytes \in BOOLEAN
  /\ \E t \in ZeroTargets : target_width = t[1] /\ target_height = t[2]
  /\ angle = 0
  /\ new_width = 0
  /\ new_height = 0
  /\ box = <<>>
  /\ out_len = -1
  /\ error = "none"
  /\ PixelsNotFollowed
  /\ NoCalls
  /\ NoApp

\* a source has no empty side, so the resize is never skipped, and a resized
\* side above 0 exceeds the target's empty side, so the crop is always made
NextInvalid ==
  \/ Orient
  \/ Resize
  \/ Crop
  \/ EncodeRgb565

SpecInvalid == InitInvalid /\ [][NextInvalid]_vars

(***************************************************************************)
(* generate_demonstration_images, next to the orientation step of the two  *)
(* paletted encoders it illustrates.                                       *)
(***************************************************************************)
Demo == "generate_demonstration_images"

\* Transpose.ROTATE_270
DemoRotateAngle == 270

InitDemo ==
  /\ pc = "entry"
  /\ encoder \in Paletted \cup {Demo}
  /\ source \in {Size(w, h) : w \in SrcSides, h \in SrcSides}
  /\ image = source
  /\ orientation \in (IF encoder = Demo THEN {"none"} ELSE Orientations)
  /\ swap_bytes = FALSE
  /\ target_width = EpaperWidth
  /\ target_height = EpaperHeight
  /\ angle = 0
  /\ new_width = 0
  /\ new_height = 0
  /\ box = <<>>
  /\ out_len = -1
  /\ error = "none"
  /\ PixelsNotFollowed
  /\ NoCalls
  /\ NoApp

\* is_image_landscape = original_image.width > original_image.height
is_image_landscape(im) == im.width > im.height

\* the rotation of an image that is wider than high
DemoOrient ==
  /\ pc = "entry"
  /\ encoder = Demo
  /\ IF is_image_landscape(image)
     THEN image' = Rotate90(image) /\ angle' = DemoRotateAngle
     ELSE UNCHANGED <<image, angle>>
  /\ pc' = "oriented"
  /\ UNCHANGED <<appVars, callVars, argVars, new_width, new_height, box, out_len, error, pixVars>>

\* the resize, which this function makes whatever the size
DemoResize ==
  /\ pc = "oriented"
  /\ encoder = Demo
  /\ LET new == NewSize(image, target_width, target_height)
     IN /\ new_width' = new.width
        /\ new_height' = new.height
        /\ IF new.width < 1 \/ new.height < 1
           THEN /\ pc' = "raised"
                /\ error' = "ValueError"
                /\ image' = image
           ELSE /\ pc' = "resized"
                /\ error' = error
                /\ image' = new
  /\ UNCHANGED <<appVars, callVars, argVars, angle, box, out_len, pixVars>>

\* buf = bytearray(int(width * height / 2)) for the target's width and height
DemoBufLen == (EpaperWidth * EpaperHeight) \div 2

\* the quantization and the pack loop, which writes one byte for every two
\* pixels of the cropped image and pads an odd last pixel with white; the
\* function returns the paths of the pictures it saved
DemoEncode ==
  /\ pc = "fitted"
  /\ encoder = Demo
  /\ IF ArrayWrites(image) > DemoBufLen
     THEN pc' = "raised" /\ error' = "IndexError"
     ELSE pc' = "returned" /\ error' = error
  /\ UNCHANGED <<appVars, callVars, argVars, geomVars, out_len, pixVars>>

NextDemo ==
  \/ Orient
  \/ DemoOrient
  \/ DemoResize
  \/ Crop
  \/ NoCrop
  \/ DemoEncode

SpecDemo == InitDemo /\ [][NextDemo]_vars

(***************************************************************************)
(* Conversion calls that run at the same time, each on an image of its     *)
(* own.  The objects are followed: which object each step reads, which it  *)
(* creates and which it changes in place.  As in SpecPixel the images are  *)
(* small and have the target's size once they are oriented, so that the    *)
(* resize is skipped and the call's `image` stays the caller's object for  *)
(* as long as it can.                                                      *)
(***************************************************************************)
Grey == <<124, 124, 124>>

\* the pixels of the callers' images, two pixels wide and one high
CallPixels == {<<Red, Grey>>, <<Grey, White>>}

\* the pixels as an image of the mode holds them: RGBA adds an alpha channel
WithMode(px, m) == IF m = "RGBA" THEN [k \in 1..Len(px) |-> Append(px[k], 255)] ELSE px

CallImages ==
  {[mode |-> m, width |-> 2, data |-> WithMode(px, m)] : m \in {"RGB", "RGBA"}, px \in CallPixels}

\* the arguments of a call
CallArgs ==
  {[encoder |-> e, orientation |-> o, swap_bytes |-> FALSE, given |-> g] :
     e \in Paletted, o \in {"portrait", "landscape"}, g \in CallImages}
  \cup
  {[encoder |-> "img_to_rgb565", orientation |-> "none", swap_bytes |-> sw, given |-> g] :
     sw \in BOOLEAN, g \in CallImages}

ObjBufShared(c, name) == IF name = "buf" THEN <<1, name>> ELSE <<c, name>>

\* the object a call creates for one of its names: a new one, of its own
Obj(c, name) == <<c, name>>

InitCalls ==
  /\ pc = "calls"
  /\ encoder = "none"
  /\ orientation = "none"
  /\ swap_bytes = FALSE
  /\ source = Size(0, 0)
  /\ image = Size(0, 0)
  /\ target_width = 0
  /\ target_height = 0
  /\ angle = 0
  /\ new_width = 0
  /\ new_height = 0
  /\ box = <<>>
  /\ out_len = -1
  /\ error = "none"
  /\ pixels = <<>>
  /\ indexed = <<>>
  /\ dithered = <<>>
  /\ code_array = <<>>
  /\ buf = <<>>
  /\ idx = 0
  /\ rgb565 = <<>>
  /\ out = <<>>
  /\ byteorder \in {"little", "big"}
  /\ NoApp
  /\ \E a \in [Calls -> CallArgs] :
       /\ frame = [c \in Calls |->
                     [pc |-> "entry", encoder |-> a[c].encoder,
                      orientation |-> a[c].orientation, swap_bytes |-> a[c].swap_bytes,
                      given |-> a[c].given, image |-> <<c, "source">>, idx |-> 0,
                      result |-> <<>>]]
       /\ heap = [o \in Objects |-> IF o[2] = "source" THEN a[o[1]].given ELSE Null]

\* image.convert('RGB'): a new image without the alpha channel
ConvertRGB(im) ==
  [mode |-> "RGB", width |-> im.width,
   data |-> [k \in 1..Len(im.data) |-> SubSeq(im.data[k], 1, 3)]]

TransposeInPlace(c) == frame[c].image

\* the object that image.transpose(ROTATE_90) returns to call c
Transposed(c) == Obj(c, "rotated")

\* image.transpose(ROTATE_90): a quarter turn counter-clockwise; the pixel
\* at column x' and row y' of the result is the one at column w-1-y', row x'
Rotated(im) ==
  LET w == im.width
      h == Len(im.data) \div w
  IN [mode |-> im.mode, width |-> h,
      data |-> [k \in 1..Len(im.data) |->
                  LET xn == (k - 1) % h
                      yn == (k - 1) \div h
                  IN im.data[xn * w + (w - 1 - yn) + 1]]]

\* if image.mode != 'RGB': image = image.convert('RGB')
CallConvert(c) ==
  /\ frame[c].pc = "entry"
  /\ IF heap[frame[c].image].mode # "RGB"
     THEN /\ heap' = [heap EXCEPT ![Obj(c, "rgb")] = ConvertRGB(heap[frame[c].image])]
          /\ frame' = [frame EXCEPT ![c].image = Obj(c, "rgb"), ![c].pc = "moded"]
     ELSE /\ heap' = heap
          /\ frame' = [frame EXCEPT ![c].pc = "moded"]
  /\ UNCHANGED <<appVars, soloVars>>

\* the paletted encoders: if orientation.lower() == 'landscape':
\* image = image.transpose(ROTATE_90)
CallRotate(c) ==
  /\ frame[c].pc = "moded"
  /\ IF frame[c].encoder \in Paletted /\ Lower(frame[c].orientation) = "landscape"
     THEN /\ heap' = [heap EXCEPT ![Transposed(c)] = Rotated(heap[frame[c].image])]
          /\ frame' = [frame EXCEPT ![c].image = Transposed(c), ![c].pc = "fitted"]
     ELSE /\ heap' = heap
          /\ frame' = [frame EXCEPT ![c].pc = "fitted"]
  /\ UNCHANGED <<appVars, soloVars>>

\* pal_image = Image.new('P', (1, 1))
CallNewPalette(c) ==
  /\ frame[c].pc = "fitted"
  /\ frame[c].encoder \in Paletted
  /\ heap' = [heap EXCEPT ![Obj(c, "pal_image")] = [mode |-> "P", width |-> 1, data |-> <<>>]]
  /\ frame' = [frame EXCEPT ![c].pc = "palette"]
  /\ UNCHANGED <<appVars, soloVars>>

\* pal_image.putpalette(...): changes pal_image in place
CallPutPalette(c) ==
  /\ frame[c].pc = "palette"
  /\ heap' = [heap EXCEPT ![Obj(c, "pal_image")].data = PaletteOf(frame[c].encoder)]
  /\ frame' = [frame EXCEPT ![c].pc = "paletted"]
  /\ UNCHANGED <<appVars, soloVars>>

\* image.convert("RGB").quantize(palette=pal_image): reads image and
\* pal_image, returns a new image
CallQuantize(c) ==
  /\ frame[c].pc = "paletted"
  /\ LET im == heap[frame[c].image]
         d  == Dither(heap[Obj(c, "pal_image")].data, im.data, im.width)
     IN heap' = [heap EXCEPT ![Obj(c, "indexed")] =
                                [mode |-> "P", width |-> im.width, data |-> d.idx]]
  /\ frame' = [frame EXCEPT ![c].pc = "quantized"]
  /\ UNCHANGED <<appVars, soloVars>>

\* img_to_array: buf = bytearray(int(image.width * image.height / 2)); idx = 0
CallAllocBuf(c) ==
  /\ frame[c].pc = "quantized"
  /\ frame[c].encoder = "img_to_array"
  /\ heap' = [heap EXCEPT ![Obj(c, "buf")] =
                [mode |-> "bytes", width |-> 0,
                 data |-> [k \in 1..(Len(heap[frame[c].image].data) \div 2) |-> 0]]]
  /\ frame' = [frame EXCEPT ![c].idx = 0, ![c].pc = "packing"]
  /\ UNCHANGED <<appVars, soloVars>>

\* img_to_array: one turn of the pack loop, which writes into buf
CallPackStep(c) ==
  /\ frame[c].pc = "packing"
  /\ 2 * frame[c].idx < Len(heap[Obj(c, "indexed")].data)
  /\ frame[c].idx < Len(heap[Obj(c, "buf")].data)
  /\ heap' = [heap EXCEPT ![Obj(c, "buf")].data[frame[c].idx + 1] =
                ArrayByte(heap[Obj(c, "indexed")].data, 2 * frame[c].idx)]
  /\ frame' = [frame EXCEPT ![c].idx = frame[c].idx + 1]
  /\ UNCHANGED <<appVars, soloVars>>

\* img_to_array: return bytes(buf)
CallReturnArray(c) ==
  /\ frame[c].pc = "packing"
  /\ 2 * frame[c].idx >= Len(heap[Obj(c, "indexed")].data)
  /\ frame' = [frame EXCEPT ![c].result = heap[Obj(c, "buf")].data, ![c].pc = "returned"]
  /\ UNCHANGED <<appVars, heap, soloVars>>

\* img_to_epaper_4bit: code_array = index_to_code[idx_array]
CallMapCodes(c) ==
  /\ frame[c].pc = "quantized"
  /\ frame[c].encoder = "img_to_epaper_4bit"
  /\ LET ix == heap[Obj(c, "indexed")]
     IN heap' = [heap EXCEPT ![Obj(c, "code_array")] =
                   [mode |-> "uint8", width |-> ix.width,
                    data |-> [k \in 1..Len(ix.data) |-> index_to_code[ix.data[k] + 1]]]]
  /\ frame' = [frame EXCEPT ![c].pc = "mapped"]
  /\ UNCHANGED <<appVars, soloVars>>

\* img_to_epaper_4bit: buf = np.empty(...); buf[...] = ...; return bytes(buf)
CallPackNibbles(c) ==
  /\ frame[c].pc = "mapped"
  /\ ~NibblePackFails(Len(heap[Obj(c, "code_array")].data))
  /\ heap' = [heap EXCEPT ![Obj(c, "buf")] =
                [mode |-> "uint8", width |-> 0,
                 data |-> NibbleBuf(heap[Obj(c, "code_array")].data)]]
  /\ frame' = [frame EXCEPT ![c].result = heap'[Obj(c, "buf")].data, ![c].pc = "returned"]
  /\ UNCHANGED <<appVars, soloVars>>

\* img_to_rgb565: img_array = np.array(image) and the word of each pixel
CallEncodeWords(c) ==
  /\ frame[c].pc = "fitted"
  /\ frame[c].encoder = "img_to_rgb565"
  /\ LET im == heap[frame[c].image]
     IN heap' = [heap EXCEPT ![Obj(c, "rgb565")] =
                   [mode |-> "uint16", width |-> im.width,
                    data |-> [k \in 1..Len(im.data) |-> Rgb565Value(im.data[k])]]]
  /\ frame' = [frame EXCEPT ![c].pc = "encoded"]
  /\ UNCHANGED <<appVars, soloVars>>

\* img_to_rgb565: if swap_bytes: rgb565 = ((rgb565 & 0xFF) << 8) | ...
CallSwapBytes(c) ==
  /\ frame[c].pc = "encoded"
  /\ IF frame[c].swap_bytes
     THEN heap' = [heap EXCEPT ![Obj(c, "rgb565")].data =
                     [k \in 1..Len(heap[Obj(c, "rgb565")].data) |->
                        SwapWord(heap[Obj(c, "rgb565")].data[k])]]
     ELSE heap' = heap
  /\ frame' = [frame EXCEPT ![c].pc = "swapped"]
  /\ UNCHANGED <<appVars, soloVars>>

\* img_to_rgb565: return rgb565.astype(np.uint16).tobytes()
CallReturnWords(c) ==
  /\ frame[c].pc = "swapped"
  /\ frame' = [frame EXCEPT ![c].result = ToBytes(heap[Obj(c, "rgb565")].data, byteorder),
                            ![c].pc = "returned"]
  /\ UNCHANGED <<appVars, heap, soloVars>>

NextCalls ==
  \E c \in Calls :
    \/ CallConvert(c)
    \/ CallRotate(c)
    \/ CallNewPalette(c)
    \/ CallPutPalette(c)
    \/ CallQuantize(c)
    \/ CallAllocBuf(c)
    \/ CallPackStep(c)
    \/ CallReturnArray(c)
    \/ CallMapCodes(c)
    \/ CallPackNibbles(c)
    \/ CallEncodeWords(c)
    \/ CallSwapBytes(c)
    \/ CallReturnWords(c)

SpecCalls == InitCalls /\ [][NextCalls]_vars

(***************************************************************************)
(* A conversion made for a display profile.  The profile names a colour    *)
(* format, a target size and an orientation; the caller picks the encoder  *)
(* by the format and passes what the encoder's signature takes: the        *)
(* paletted encoders take the orientation (their target is the panel's),   *)
(* img_to_rgb565 takes the target size and has no orientation parameter.   *)
(* Here `orientation` is the profile's in all three cases.                 *)
(***************************************************************************)
InitProfile ==
  /\ pc = "entry"
  /\ encoder \in Encoders
  /\ orientation \in Orientations
  /\ source \in {Size(w, h) : w \in SrcSides, h \in SrcSides}
  /\ image = source
  /\ IF encoder = "img_to_rgb565"
     THEN /\ swap_bytes \in BOOLEAN
          /\ \E t \in RgbTargets : target_width = t[1] /\ target_height = t[2]
     ELSE /\ swap_bytes = FALSE
          /\ target_width = EpaperWidth
          /\ target_height = EpaperHeight
  /\ angle = 0
  /\ new_width = 0
  /\ new_height = 0
  /\ box = <<>>
  /\ out_len = -1
  /\ error = "none"
  /\ PixelsNotFollowed
  /\ NoCalls
  /\ NoApp

SpecProfile == InitProfile /\ [][Next]_vars

(***************************************************************************)
(* scripts/migrate_playlist_structure.py: migrate_db on the tables of      *)
(* app.db.  The database is a record: the tables and columns that exist    *)
(* and the rows of custom_playlist, playlist, photo_frame and              *)
(* playlist_entry.  Every action runs the code up to and including a       *)
(* conn.commit(), so `db` is always the committed state; a process that is *)
(* killed loses what it had not committed, which is the state before the   *)
(* action.  SQLite returns the rows of the two SELECTs in a fixed order,   *)
(* FrameOrder here.                                                        *)
(***************************************************************************)
\* the runs of migrate_db that are followed: the first and the repeated ones
MaxRuns == 2
\* the rows of playlist_entry
MaxEntries == 2

\* SQL's NULL in an integer column and in photo_frame.id's type
NullId    == 0
NullFrame == "NULL"

FrameOrder == <<"f1", "f2">>
\* name is "" for a frame without a name (None or '')
FrameNames == {"", "Hall"}

\* f"{frame_name or frame_id} Playlist"; n is the suffix " ({counter})",
\* 1 for none.  A name that is not of this form has n = 0.
PlaylistName(frame_id, frame_name) ==
  [base |-> IF frame_name # "" THEN frame_name ELSE frame_id, n |-> 1]
Suffixed(base_name, counter) == [base |-> base_name.base, n |-> counter]
Trips == [base |-> "Trips", n |-> 0]

table_exists(d, table_name) == table_name \in d.tables
column_exists(d, table_name, column_name) == <<table_name, column_name>> \in d.columns

\* the playlist row of a name, and whether there is one
Named(d, name) == {r \in d.playlist : r.name = name}
IdOf(d, name) == (CHOOSE r \in Named(d, name) : TRUE).id

\* the id SQLite gives a new row: one more than the largest in the table
NextId(rows) ==
  IF rows = {} THEN 1
  ELSE 1 + (CHOOSE m \in {r.id : r \in rows} : \A r \in rows : r.id <= m)

\* INSERT INTO playlist (name, created_at, updated_at) VALUES (...)
InsertPlaylist(d, name) ==
  [d EXCEPT !.playlist = @ \cup {[id |-> NextId(@), name |-> name]}]

\* UPDATE photo_frame SET playlist_id = :playlist_id WHERE id = :frame_id
UpdateFrame(d, frame_id, playlist_id) ==
  [d EXCEPT !.photo_frame =
     {IF f.id = frame_id THEN [f EXCEPT !.playlist_id = playlist_id] ELSE f : f \in @}]

\* UPDATE playlist_entry SET playlist_id = :playlist_id, frame_id = NULL
\* WHERE frame_id = :frame_id
UpdateEntries(d, frame_id, playlist_id) ==
  [d EXCEPT !.playlist_entry =
     {IF e.frame_id = frame_id
      THEN [e EXCEPT !.playlist_id = playlist_id, !.frame_id = NullFrame]
      ELSE e : e \in @}]

\* Step 1: custom_playlist is renamed, or playlist is created, or neither
RenameOrCreate(d) ==
  IF table_exists(d, "custom_playlist") /\ ~table_exists(d, "playlist")
  THEN [d EXCEPT !.tables = (@ \ {"custom_playlist"}) \cup {"playlist"},
                 !.playlist = d.custom_playlist,
                 !.custom_playlist = {}]
  ELSE IF ~table_exists(d, "playlist")
  THEN [d EXCEPT !.tables = @ \cup {"playlist"}]
  ELSE d

\* Steps 2 and 3: ALTER TABLE ... ADD COLUMN playlist_id (NULL in every row)
AddColumn(d, table_name) ==
  IF ~column_exists(d, table_name, "playlist_id")
  THEN [d EXCEPT !.columns = @ \cup {<<table_name, "playlist_id">>}]
  ELSE d

\* Step 4: UPDATE playlist_entry SET playlist_id = custom_playlist_id
\* WHERE custom_playlist_id IS NOT NULL AND playlist_id IS NULL
CopyCustomIds(d) ==
  IF column_exists(d, "playlist_entry", "custom_playlist_id")
  THEN [d EXCEPT !.playlist_entry =
          {IF e.custom_playlist_id # NullId /\ e.playlist_id = NullId
           THEN [e EXCEPT !.playlist_id = e.custom_playlist_id]
           ELSE e : e \in @}]
  ELSE d

\* the rows <<id, name>> of the selected photo_frame rows, in SQLite's order
Fetched(selected) ==
  LET ids == SelectSeq(FrameOrder, LAMBDA i : \E f \in selected : f.id = i)
  IN [k \in 1..Len(ids) |-> LET f == CHOOSE g \in selected : g.id = ids[k]
                            IN <<f.id, f.name>>]

\* SELECT DISTINCT pf.id, pf.name FROM photo_frame pf INNER JOIN
\* playlist_entry pe ON pe.frame_id = pf.id WHERE pf.playlist_id IS NULL
frames_with_entries(d) ==
  Fetched({f \in d.photo_frame :
             f.playlist_id = NullId /\ \E e \in d.playlist_entry : e.frame_id = f.id})

\* SELECT id, name FROM photo_frame WHERE playlist_id IS NULL
frames_without_playlist(d) == Fetched({f \in d.photo_frame : f.playlist_id = NullId})

RECURSIVE FreeName(_, _, _)
\* Step 6's while loop: the first of base_name, base_name (2), base_name (3),
\* ... that no playlist has
FreeName(d, base_name, counter) ==
  IF Named(d, Suffixed(base_name, counter)) = {} THEN Suffixed(base_name, counter)
  ELSE FreeName(d, base_name, counter + 1)

\* the databases the migration is started on: photo_frame and
\* playlist_entry exist, with neither playlist_id column; custom_playlist,
\* playlist, playlist_entry.frame_id and playlist_entry.custom_playlist_id
\* exist or not; every reference is to a row that exists, and an entry is
\* in a frame's playlist or in a custom playlist, not both
PlaylistTables == {"custom_playlist", "playlist"}
EntryColumns == {<<"playlist_entry", "frame_id">>, <<"playlist_entry", "custom_playlist_id">>}
PlaylistRows == {{}, {[id |-> 1, name |-> Trips]},
                 {[id |-> 1, name |-> PlaylistName("", "Hall")]}}
FrameRows ==
  {{[id |-> FrameOrder[1], name |-> n, playlist_id |-> NullId]} : n \in FrameNames}
  \cup {{[id |-> FrameOrder[1], name |-> n, playlist_id |-> NullId],
         [id |-> FrameOrder[2], name |-> "Hall", playlist_id |-> NullId]} : n \in FrameNames}

\* the old playlists an entry can be in: a frame's or a custom playlist
Owners(tables, columns, customs, playlists, frames) ==
  {[frame_id |-> f.id, custom_playlist_id |-> NullId] :
     f \in IF <<"playlist_entry", "frame_id">> \in columns THEN frames ELSE {}}
  \cup {[frame_id |-> NullFrame, custom_playlist_id |-> r.id] :
     r \in IF <<"playlist_entry", "custom_playlist_id">> \notin columns THEN {}
           ELSE IF "custom_playlist" \in tables THEN customs
           ELSE playlists}

EntryRows(owners) ==
  UNION {{{[id |-> i, frame_id |-> o[i].frame_id,
            custom_playlist_id |-> o[i].custom_playlist_id,
            playlist_id |-> NullId] : i \in 1..n} : o \in [1..n -> owners]}
         : n \in 0..MaxEntries}

\* migrate_db is started: the first of its runs
InitMigrate ==
  /\ \E tables \in SUBSET PlaylistTables, columns \in SUBSET EntryColumns :
       \E c \in IF "custom_playlist" \in tables THEN PlaylistRows ELSE {{}},
          p \in IF "playlist" \in tables THEN PlaylistRows ELSE {{}},
          fr \in FrameRows :
         \E en \in EntryRows(Owners(tables, columns, c, p, fr)) :
           db = [tables |-> tables, columns |-> columns, custom_playlist |-> c,
                 playlist |-> p, photo_frame |-> fr, playlist_entry |-> en]
  /\ db0 = db
  /\ mig = [pc |-> "step1", todo |-> <<>>, run |-> 1]
  /\ cli = <<>>
  /\ sync = <<>>
  /\ photo_frame = <<>>
  /\ status = <<>>
  /\ pc = "idle"
  /\ encoder = "none"
  /\ orientation = "none"
  /\ swap_bytes = FALSE
  /\ source = Size(0, 0)
  /\ image = Size(0, 0)
  /\ target_width = 0
  /\ target_height = 0
  /\ angle = 0
  /\ new_width = 0
  /\ new_height = 0
  /\ box = <<>>
  /\ out_len = -1
  /\ error = "none"
  /\ PixelsNotFollowed
  /\ NoCalls

\* migrate_db leaves everything but the database alone
MigrateFrame == UNCHANGED <<codecVars, db0, cli, rowVars>>

\* Step 1 and its commit
Step1 ==
  /\ mig.pc = "step1"
  /\ db' = RenameOrCreate(db)
  /\ mig' = [mig EXCEPT !.pc = "step2"]
  /\ MigrateFrame

\* Step 2: photo_frame.playlist_id
Step2 ==
  /\ mig.pc = "step2"
  /\ db' = AddColumn(db, "photo_frame")
  /\ mig' = [mig EXCEPT !.pc = "step3"]
  /\ MigrateFrame

\* Step 3: playlist_entry.playlist_id
Step3 ==
  /\ mig.pc = "step3"
  /\ db' = AddColumn(db, "playlist_entry")
  /\ mig' = [mig EXCEPT !.pc = "step4"]
  /\ MigrateFrame

\* Step 4 and, where playlist_entry has a frame_id column, Step 5's SELECT
Step4 ==
  /\ mig.pc = "step4"
  /\ db' = CopyCustomIds(db)
  /\ IF column_exists(db', "playlist_entry", "frame_id")
     THEN mig' = [mig EXCEPT !.pc = "step5", !.todo = frames_with_entries(db')]
     ELSE mig' = [mig EXCEPT !.pc = "done"]
  /\ MigrateFrame

\* Step 5, a frame whose playlist name is taken: the playlist of that name
\* becomes the frame's, in one transaction
UseExisting ==
  /\ mig.pc = "step5"
  /\ mig.todo # <<>>
  /\ LET frame_id == Head(mig.todo)[1]
         playlist_name == PlaylistName(frame_id, Head(mig.todo)[2])
     IN /\ Named(db, playlist_name) # {}
        /\ db' = UpdateEntries(UpdateFrame(db, frame_id, IdOf(db, playlist_name)),
                               frame_id, IdOf(db, playlist_name))
  /\ mig' = [mig EXCEPT !.todo = Tail(@)]
  /\ MigrateFrame

\* Step 5, a frame whose playlist name is free: the INSERT and its commit
CreatePlaylist ==
  /\ mig.pc = "step5"
  /\ mig.todo # <<>>
  /\ LET playlist_name == PlaylistName(Head(mig.todo)[1], Head(mig.todo)[2])
     IN /\ Named(db, playlist_name) = {}
        /\ db' = InsertPlaylist(db, playlist_name)
  /\ mig' = [mig EXCEPT !.pc = "created"]
  /\ MigrateFrame

\* ... then the frame and its entries are given the new playlist's id
AssignPlaylist ==
  /\ mig.pc = "created"
  /\ LET frame_id == Head(mig.todo)[1]
         playlist_id == IdOf(db, PlaylistName(frame_id, Head(mig.todo)[2]))
     IN db' = UpdateEntries(UpdateFrame(db, frame_id, playlist_id), frame_id, playlist_id)
  /\ mig' = [mig EXCEPT !.pc = "step5", !.todo = Tail(@)]
  /\ MigrateFrame

\* Step 6's SELECT, after the last frame of Step 5
SelectWithoutPlaylist ==
  /\ mig.pc = "step5"
  /\ mig.todo = <<>>
  /\ mig' = [mig EXCEPT !.pc = "step6", !.todo = frames_without_playlist(db)]
  /\ UNCHANGED db
  /\ MigrateFrame

\* Step 6, a frame without a playlist: a free name, the INSERT and its commit
CreateEmptyPlaylist ==
  /\ mig.pc = "step6"
  /\ mig.todo # <<>>
  /\ LET base_name == PlaylistName(Head(mig.todo)[1], Head(mig.todo)[2])
         playlist_name == FreeName(db, base_name, 1)
     IN /\ db' = InsertPlaylist(db, playlist_name)
        /\ mig' = [pc |-> "inserted", todo |-> mig.todo, run |-> mig.run,
                   playlist_name |-> playlist_name]
  /\ MigrateFrame

\* ... then the frame is given the new playlist's id
AssignEmptyPlaylist ==
  /\ mig.pc = "inserted"
  /\ db' = UpdateFrame(db, Head(mig.todo)[1], IdOf(db, mig.playlist_name))
  /\ mig' = [pc |-> "step6", todo |-> Tail(mig.todo), run |-> mig.run]
  /\ MigrateFrame

\* the summary, after the last frame of Step 6
Summary ==
  /\ mig.pc = "step6"
  /\ mig.todo = <<>>
  /\ mig' = [mig EXCEPT !.pc = "done"]
  /\ UNCHANGED db
  /\ MigrateFrame

\* the process is killed between two commits
Kill ==
  /\ mig.pc \notin {"done", "killed"}
  /\ mig.run < MaxRuns
  /\ mig' = [pc |-> "killed", todo |-> <<>>, run |-> mig.run]
  /\ UNCHANGED db
  /\ MigrateFrame

\* migrate_db is run again, on the database as the last run left it
RunAgain ==
  /\ mig.pc \in {"done", "killed"}
  /\ mig.run < MaxRuns
  /\ mig' = [pc |-> "step1", todo |-> <<>>, run |-> mig.run + 1]
  /\ UNCHANGED db
  /\ MigrateFrame

NextMigrate ==
  \/ Step1
  \/ Step2
  \/ Step3
  \/ Step4
  \/ UseExisting
  \/ CreatePlaylist
  \/ AssignPlaylist
  \/ SelectWithoutPlaylist
  \/ CreateEmptyPlaylist
  \/ AssignEmptyPlaylist
  \/ Summary
  \/ Kill
  \/ RunAgain

SpecMigrate == InitMigrate /\ [][NextMigrate]_vars

\* verify_migration: every frame has a playlist and, if playlist_entry has
\* a frame_id column, no entry has a frame_id
verify_migration(d) ==
  /\ \A f \in d.photo_frame : f.playlist_id # NullId
  /\ column_exists(d, "playlist_entry", "frame_id") =>
       \A e \in d.playlist_entry : e.frame_id = NullFrame

RECURSIVE MigrateFrames(_, _)
\* Step 5's loop, run through without interruption
MigrateFrames(d, todo) ==
  IF todo = <<>> THEN d
  ELSE LET frame_id == Head(todo)[1]
           playlist_name == PlaylistName(frame_id, Head(todo)[2])
           d1 == IF Named(d, playlist_name) # {} THEN d ELSE InsertPlaylist(d, playlist_name)
           playlist_id == IdOf(d1, playlist_name)
       IN MigrateFrames(UpdateEntries(UpdateFrame(d1, frame_id, playlist_id),
                                      frame_id, playlist_id), Tail(todo))

RECURSIVE CreateEmptyPlaylists(_, _)
\* Step 6's loop, run through without interruption
CreateEmptyPlaylists(d, todo) ==
  IF todo = <<>> THEN d
  ELSE LET frame_id == Head(todo)[1]
           playlist_name == FreeName(d, PlaylistName(frame_id, Head(todo)[2]), 1)
           d1 == InsertPlaylist(d, playlist_name)
       IN CreateEmptyPlaylists(UpdateFrame(d1, frame_id, IdOf(d1, playlist_name)), Tail(todo))

\* migrate_db run from its first line to its last on the database d
migrate_db(d) ==
  LET d4 == CopyCustomIds(AddColumn(AddColumn(RenameOrCreate(d), "photo_frame"),
                                    "playlist_entry"))
  IN IF column_exists(d4, "playlist_entry", "frame_id")
     THEN LET d5 == MigrateFrames(d4, frames_with_entries(d4))
          IN CreateEmptyPlaylists(d5, frames_without_playlist(d5))
     ELSE d4

(***************************************************************************)
(* db_manager.py: main, by its arguments and by whether the database file  *)
(* db_path exists.  create_database, migrate_database and the copy of      *)
(* backup_database succeed or fail.  cli.rc is the status the process ends *)
(* with: what main returns, or the argument of sys.exit in                 *)
(* backup_database.                                                        *)
(***************************************************************************)
Flags == [create : BOOLEAN, migrate : BOOLEAN, backup : BOOLEAN, force : BOOLEAN]

InitManager ==
  /\ \E a \in Flags, e \in BOOLEAN :
       cli = [pc |-> "parsed", given |-> a, args |-> a, exists |-> e, existed |-> e,
              rc |-> -1, removed |-> FALSE, created |-> FALSE, backups |-> 0]
  /\ db = <<>>
  /\ db0 = <<>>
  /\ mig = <<>>
  /\ sync = <<>>
  /\ photo_frame = <<>>
  /\ status = <<>>
  /\ pc = "idle"
  /\ encoder = "none"
  /\ orientation = "none"
  /\ swap_bytes = FALSE
  /\ source = Size(0, 0)
  /\ image = Size(0, 0)
  /\ target_width = 0
  /\ target_height = 0
  /\ angle = 0
  /\ new_width = 0
  /\ new_height = 0
  /\ box = <<>>
  /\ out_len = -1
  /\ error = "none"
  /\ PixelsNotFollowed
  /\ NoCalls

\* main changes cli only
ManagerFrame == UNCHANGED <<codecVars, db, db0, mig, rowVars>>

\* "Default to create if database doesn't exist"
DefaultCreate ==
  /\ cli.pc = "parsed"
  /\ cli' = [cli EXCEPT !.pc = "backup",
                        !.args.create = @ \/ (~cli.exists /\ ~(cli.args.create \/ cli.args.migrate
                                                              \/ cli.args.backup))]
  /\ ManagerFrame

\* backup_database, if --backup or --migrate: nothing without a database,
\* else the copy, whose failure ends the process with sys.exit(1)
Backup ==
  /\ cli.pc = "backup"
  /\ IF (cli.args.backup \/ cli.args.migrate) /\ cli.exists
     THEN \/ cli' = [cli EXCEPT !.pc = "create", !.backups = @ + 1]
          \/ cli' = [cli EXCEPT !.pc = "exit", !.rc = 1]
     ELSE cli' = [cli EXCEPT !.pc = "create"]
  /\ ManagerFrame

\* --create on a database that exists is refused without --force
CreateRefusedNever(c) == FALSE
CreateRefused(c) == c.exists /\ ~c.args.force

\* "Database already exists ... Use --force to overwrite.": return 1
RefuseCreate ==
  /\ cli.pc = "create"
  /\ cli.args.create
  /\ CreateRefused(cli)
  /\ cli' = [cli EXCEPT !.pc = "exit", !.rc = 1]
  /\ ManagerFrame

\* os.remove(db_path), if the database exists and --force is given
RemoveExisting ==
  /\ cli.pc = "create"
  /\ cli.args.create
  /\ ~CreateRefused(cli)
  /\ IF cli.exists /\ cli.args.force
     THEN cli' = [cli EXCEPT !.pc = "creating", !.exists = FALSE, !.removed = TRUE]
     ELSE cli' = [cli EXCEPT !.pc = "creating"]
  /\ ManagerFrame

\* success = create_database(); return 0 if success else 1
CreateDatabase ==
  /\ cli.pc = "creating"
  /\ \/ cli' = [cli EXCEPT !.pc = "exit", !.rc = 0, !.exists = TRUE, !.created = TRUE]
     \/ \E e \in {cli.exists, TRUE} :
          cli' = [cli EXCEPT !.pc = "exit", !.rc = 1, !.exists = e, !.created = TRUE]
  /\ ManagerFrame

\* --migrate without --create: refused without a database, else
\* migrate_database
Migrate ==
  /\ cli.pc = "create"
  /\ ~cli.args.create
  /\ cli.args.migrate
  /\ IF ~cli.exists
     THEN cli' = [cli EXCEPT !.pc = "exit", !.rc = 1]
     ELSE \E rc \in {0, 1} : cli' = [cli EXCEPT !.pc = "exit", !.rc = rc]
  /\ ManagerFrame

\* neither: the help, if nothing was asked for; return 0
ReturnZero ==
  /\ cli.pc = "create"
  /\ ~cli.args.create
  /\ ~cli.args.migrate
  /\ cli' = [cli EXCEPT !.pc = "exit", !.rc = 0]
  /\ ManagerFrame

NextManager ==
  \/ DefaultCreate
  \/ Backup
  \/ RefuseCreate
  \/ RemoveExisting
  \/ CreateDatabase
  \/ Migrate
  \/ ReturnZero

SpecManager == InitManager /\ [][NextManager]_vars

(***************************************************************************)
(* model.py: SyncGroup.get_next_sync_time for two frames of a group.  The  *)
(* base times are instants on a grid of 1/TicksPerSecond s since the UTC   *)
(* epoch and sleep_interval is a multiple of half a minute, so that        *)
(* timestamp() and sleep_interval * 60 are exact floats; the division is   *)
(* Python's, rounded to the nearest float.                                 *)
(***************************************************************************)
TicksPerSecond == 4
\* sleep_interval in half minutes: 0.5, 1.0 and the default 5.0
HalfMinutes == {1, 2, 10}
\* interval_seconds = self.sleep_interval * 60
IntervalSeconds(half_minutes) == half_minutes * 30
\* the base times: in the windows that begin Windows intervals after the
\* epoch, at the boundaries, next to them and inside
Windows == {0, 1, 1000000}
Offsets(ticks) == {0, 1, ticks \div 2, ticks - 1, ticks, ticks + 1}
BaseTimes(half_minutes) ==
  LET ticks == TicksPerSecond * IntervalSeconds(half_minutes)
  IN {w * ticks + o : w \in Windows, o \in Offsets(ticks)}

FFloor(x) == FInt(x)
\* math.ceil(x) of a float x >= 0
FCeil(x) ==
  IF x = FZero THEN 0
  ELSE IF x.e < 0 THEN 1
  ELSE FInt(x) + (IF \E i \in (x.e + 2)..MantBits : x.m[i] = 1 THEN 1 ELSE 0)

\* get_next_sync_time(after) for after = base / TicksPerSecond seconds past
\* the epoch: the seconds past the epoch of the datetime returned
get_next_sync_time(half_minutes, base) ==
  LET interval_seconds == IntervalSeconds(half_minutes)
      \* epoch_seconds / interval_seconds
      quotient == FDiv(base, TicksPerSecond * interval_seconds)
      next_boundary_seconds == FMulInt(interval_seconds, FDiv(FCeil(quotient), 1))
  IN FInt(next_boundary_seconds)

InitSync ==
  /\ \E h \in HalfMinutes :
       \E b1 \in BaseTimes(h), b2 \in BaseTimes(h) :
         sync = [sleep_interval |-> h, base |-> <<b1, b2>>, result |-> <<-1, -1>>]
  /\ db = <<>>
  /\ db0 = <<>>
  /\ mig = <<>>
  /\ cli = <<>>
  /\ photo_frame = <<>>
  /\ status = <<>>
  /\ pc = "idle"
  /\ encoder = "none"
  /\ orientation = "none"
  /\ swap_bytes = FALSE
  /\ source = Size(0, 0)
  /\ image = Size(0, 0)
  /\ target_width = 0
  /\ target_height = 0
  /\ angle = 0
  /\ new_width = 0
  /\ new_height = 0
  /\ box = <<>>
  /\ out_len = -1
  /\ error = "none"
  /\ PixelsNotFollowed
  /\ NoCalls

\* a frame of the group asks for its next sync time
NextSyncTime ==
  /\ \E i \in {1, 2} :
       /\ sync.result[i] = -1
       /\ sync' = [sync EXCEPT !.result[i] = get_next_sync_time(sync.sleep_interval,
                                                                sync.base[i])]
  /\ UNCHANGED <<codecVars, dbVars, photo_frame, status>>

SpecSync == InitSync /\ [][NextSyncTime]_vars

(***************************************************************************)
(* model.py: is_in_deep_sleep and PhotoFrame.get_status.  Times are        *)
(* seconds since the UTC epoch (get_status converts what it is given to    *)
(* UTC), hours are 0..23, None is a column that is not set.                *)
(***************************************************************************)
None == -1
HoursPerDay == 24
SecondsPerHour == 3600
Hours == 0..(HoursPerDay - 1)
\* deep_sleep_enabled: a Boolean column that can be NULL
Booleans == {"True", "False", "None"}

\* current_time.hour
HourOf(t) == (t \div SecondsPerHour) % HoursPerDay

BeforeOrAt(h, deep_sleep_end) == h <= deep_sleep_end
Before(h, deep_sleep_end) == h < deep_sleep_end

\* is_in_deep_sleep(frame, current_time); fr is its parameter `frame`
is_in_deep_sleep(fr, current_time) ==
  IF fr.deep_sleep_enabled # "True" \/ fr.deep_sleep_start = None
       \/ fr.deep_sleep_end = None
  THEN FALSE
  ELSE LET current_hour == HourOf(current_time)
       IN IF fr.deep_sleep_start > fr.deep_sleep_end
          THEN current_hour >= fr.deep_sleep_start \/ Before(current_hour, fr.deep_sleep_end)
          ELSE fr.deep_sleep_start <= current_hour /\ Before(current_hour, fr.deep_sleep_end)

\* timedelta(minutes=m), in seconds
Minutes(m) == m * 60

WithinStrictly(time_since_wake, limit) == time_since_wake < limit
Within(time_since_wake, limit) == time_since_wake <= limit

NeverConnected == [code |-> 0, text |-> "Never Connected"]
Offline        == [code |-> 0, text |-> "Offline"]
Sleeping       == [code |-> 1, text |-> "Sleeping"]
Online         == [code |-> 2, text |-> "Online"]
InDeepSleep    == [code |-> 3, text |-> "In Deep Sleep"]

get_status(self, current_time) ==
  IF self.last_wake_time = None THEN NeverConnected
  ELSE IF is_in_deep_sleep(self, current_time) THEN InDeepSleep
  ELSE IF Within(current_time - self.last_wake_time, Minutes(5)) THEN Online
  ELSE LET wake_window_start == self.next_wake_time - Minutes(2)
           wake_window_end == self.next_wake_time + Minutes(2)
           wake_window_end_based_on_interval ==
             self.last_wake_time + Minutes(self.sleep_interval) + Minutes(2)
       IN IF self.next_wake_time # None /\ wake_window_start <= current_time
               /\ current_time <= wake_window_end
          THEN Sleeping
          ELSE IF self.next_wake_time # None /\ current_time > wake_window_end + Minutes(10)
          THEN Offline
          ELSE IF current_time <= wake_window_end_based_on_interval THEN Sleeping
          ELSE IF current_time > wake_window_end_based_on_interval + Minutes(10) THEN Offline
          ELSE Sleeping

\* the codec's variables and the other scripts' are idle
OnlyRows ==
  /\ db = <<>>
  /\ db0 = <<>>
  /\ mig = <<>>
  /\ cli = <<>>
  /\ sync = <<>>
  /\ pc = "idle"
  /\ encoder = "none"
  /\ orientation = "none"
  /\ swap_bytes = FALSE
  /\ source = Size(0, 0)
  /\ image = Size(0, 0)
  /\ target_width = 0
  /\ target_height = 0
  /\ angle = 0
  /\ new_width = 0
  /\ new_height = 0
  /\ box = <<>>
  /\ out_len = -1
  /\ error = "none"
  /\ PixelsNotFollowed
  /\ NoCalls

\* is_in_deep_sleep is asked about a frame at every hour of a day
Midnight == 20000 * HoursPerDay * SecondsPerHour

InitSleep ==
  /\ \E en \in Booleans, s \in Hours \cup {None}, e \in Hours \cup {None} :
       photo_frame = [last_wake_time |-> None, next_wake_time |-> None, sleep_interval |-> 5,
                      deep_sleep_enabled |-> en, deep_sleep_start |-> s, deep_sleep_end |-> e]
  /\ \E h \in Hours :
       status = [pc |-> "call", current_time |-> Midnight + h * SecondsPerHour + 1800,
                 deep_sleep |-> FALSE, result |-> NeverConnected]
  /\ OnlyRows

IsInDeepSleep ==
  /\ status.pc = "call"
  /\ status' = [status EXCEPT !.pc = "returned",
                              !.deep_sleep = is_in_deep_sleep(photo_frame, status.current_time)]
  /\ UNCHANGED <<codecVars, dbVars, sync, photo_frame>>

SpecSleep == InitSleep /\ [][IsInDeepSleep]_vars

\* get_status is asked about a frame: at three times of day, with deep sleep
\* windows that hold them or not, the last wake and the next wake at and
\* around the limits the code compares with
CurrentTimes == {Midnight + 1 * SecondsPerHour + 1800, Midnight + 2 * SecondsPerHour,
                 Midnight + 23 * SecondsPerHour + 3599}
SleepHours == {None, 2, 23}
SinceWake == {-60, 0, 299, 300, 301, 420, 421, 1020, 1021, 5000}
UntilWake == {-721, -720, -121, -120, 0, 120, 121}

InitStatus ==
  /\ \E t \in CurrentTimes :
       /\ status = [pc |-> "call", current_time |-> t, deep_sleep |-> FALSE,
                    result |-> NeverConnected]
       /\ \E en \in Booleans, s \in SleepHours, e \in SleepHours,
             lw \in {None} \cup {t - d : d \in SinceWake},
             nw \in {None} \cup {t + u : u \in UntilWake} :
            photo_frame = [last_wake_time |-> lw, next_wake_time |-> nw, sleep_interval |-> 5,
                           deep_sleep_enabled |-> en, deep_sleep_start |-> s,
                           deep_sleep_end |-> e]
  /\ OnlyRows

GetStatus ==
  /\ status.pc = "call"
  /\ status' = [status EXCEPT !.pc = "returned",
                              !.deep_sleep = is_in_deep_sleep(photo_frame, status.current_time),
                              !.result = get_status(photo_frame, status.current_time)]
  /\ UNCHANGED <<codecVars, dbVars, sync, photo_frame>>

SpecStatus == InitStatus /\ [][GetStatus]_vars

(***************************************************************************)
(* The claims.                                                             *)
(***************************************************************************)
\* the length the claims give: ceil(W*H*4/8) for the paletted encoders,
\* W*H*2 for RGB565, W x H the target size
ExpectedLength ==
  IF encoder \in Paletted THEN (target_width * target_height * 4 + 7) \div 8
  ELSE target_width * target_height * 2

\* C1: every conversion that returns, returns a byte string of the length
\* the target size gives, whatever the size of the source.
C1_OutputLength == pc = "returned" => out_len = ExpectedLength

\* C2: the image that leaves the resize/crop stage is exactly
\* target_width x target_height, for every source size and aspect ratio.
C2_FittedSize == pc = "fitted" => image = Size(target_width, target_height)

\* the resize has computed new_width and new_height
Scaled == pc = "resized" \/ box # <<>> \/ error = "ValueError"

\* C3: after the scaling the resized image covers the target in both
\* dimensions, so the crop box lies inside the resized image.
C3_CropInside ==
  /\ Scaled => new_width >= target_width /\ new_height >= target_height
  /\ box # <<>> => /\ box[1] >= 0
                   /\ box[2] >= 0
                   /\ box[3] <= new_width
                   /\ box[4] <= new_height

\* the 4-bit code of each pixel as it goes into the pack
Codes == IF encoder = "img_to_array" THEN indexed ELSE code_array

\* C4: in both paletted encoders output byte i is (code[2i] << 4) | code[2i+1]
\* for every i with 2i+1 < n: the even pixel in the high nibble, the odd
\* pixel in the low nibble.
C4_NibbleOrder ==
  (pc = "returned" /\ encoder \in Paletted) =>
    \A i \in 0..(Len(Codes) - 1) :
      2 * i + 1 < Len(Codes) => out[i + 1] = 16 * Codes[2 * i + 1] + Codes[2 * i + 2]

\* C4's case: a returned pack of two bytes whose nibbles differ
C4_Witness ==
  /\ pc = "returned"
  /\ encoder = "img_to_epaper_4bit"
  /\ Len(out) = 2
  /\ code_array[1] # code_array[2]
  /\ code_array[3] # code_array[4]

\* the code for white: 1 in the 7-colour palette, 0x0 in the 6-colour one
WhiteCode == IF encoder = "img_to_array" THEN 1 ELSE 0

\* C5: for an odd number n of pixels the pack succeeds and returns ceil(n/2)
\* bytes, the last one holding the final pixel's code in the high nibble and
\* the white code in the low nibble.
C5_OddPadded ==
  (encoder \in Paletted /\ pc \in {"returned", "raised"} /\ Len(indexed) % 2 = 1) =>
    /\ pc = "returned"
    /\ Len(out) = (Len(indexed) + 1) \div 2
    /\ out[Len(out)] = 16 * Codes[Len(Codes)] + WhiteCode

\* the code the claim gives each colour of the 6-colour display
ColourCode(c) ==
  CASE c = White  -> 0
    [] c = Black  -> 15
    [] c = Yellow -> 11
    [] c = Red    -> 6
    [] c = Blue   -> 13
    [] c = Green  -> 2

\* nibble k (from 1) of a packed buffer: high nibble first
Nibble(bytes, k) ==
  IF k % 2 = 1 THEN bytes[(k + 1) \div 2] \div 16 ELSE bytes[k \div 2] % 16

\* C6: the 6-colour encoder emits for each pixel the code of the colour its
\* palette index stands for, the 7-colour encoder the palette index itself;
\* an all-white image under the 6-colour profile encodes to 0x00 bytes only.
C6_CodeMap ==
  (pc = "returned" /\ encoder \in Paletted) =>
    /\ \A k \in 1..Len(indexed) :
         Nibble(out, k) = IF encoder = "img_to_epaper_4bit"
                          THEN ColourCode(Colours6[indexed[k] + 1])
                          ELSE indexed[k]
    /\ (encoder = "img_to_epaper_4bit" /\ \A k \in 1..Len(pixels) : pixels[k] = White)
         => \A j \in 1..Len(out) : out[j] = 0

\* C6's case: the 2 x 2 all-white image under the 6-colour profile
C6_Witness ==
  /\ pc = "returned"
  /\ encoder = "img_to_epaper_4bit"
  /\ image = Size(2, 2)
  /\ \A k \in 1..Len(pixels) : pixels[k] = White
  /\ out = <<0, 0>>

\* C7: the RGB565 value is below 2^16 and its fields do not overlap: bits
\* 15-11 hold R >> 3, bits 10-5 hold G >> 2, bits 4-0 hold B >> 3.
C7_Rgb565Fields ==
  (pc = "encoded" /\ encoder = "img_to_rgb565") =>
    \A k \in 1..Len(pixels) :
      /\ rgb565[k] < 65536
      /\ rgb565[k] \div 2048 = pixels[k][1] \div 8
      /\ (rgb565[k] \div 32) % 64 = pixels[k][2] \div 4
      /\ rgb565[k] % 32 = pixels[k][3] \div 8

\* C7's case: a pixel whose channels all have bits below and above the cut
C7_Witness ==
  /\ pc = "encoded"
  /\ encoder = "img_to_rgb565"
  /\ pixels[1] = <<255, 7, 129>>
  /\ rgb565[1] = 63536

\* the high and the low byte of pixel k's RGB565 value
HighByte(k) == Rgb565Value(pixels[k]) \div 256
LowByte(k)  == Rgb565Value(pixels[k]) % 256

\* C8 as claimed: with swap_bytes the low byte of each pixel is emitted first
\* and the high byte second; without it the high byte first.
C8_SwapLowFirst ==
  (pc = "returned" /\ encoder = "img_to_rgb565") =>
    \A k \in 1..Len(pixels) :
      IF swap_bytes
      THEN out[2 * k - 1] = LowByte(k) /\ out[2 * k] = HighByte(k)
      ELSE out[2 * k - 1] = HighByte(k) /\ out[2 * k] = LowByte(k)

\* C8 amended: the words are written in the host's byte order after the
\* swap, so on a little-endian host swap_bytes gives the high byte first and
\* no swap the low byte first; a big-endian host gives the reverse.
C8_SwapNativeOrder ==
  (pc = "returned" /\ encoder = "img_to_rgb565") =>
    \A k \in 1..Len(pixels) :
      IF swap_bytes = (byteorder = "little")
      THEN out[2 * k - 1] = HighByte(k) /\ out[2 * k] = LowByte(k)
      ELSE out[2 * k - 1] = LowByte(k) /\ out[2 * k] = HighByte(k)

\* C8's case: a swapped pixel with different bytes on a little-endian host
C8_Witness ==
  /\ pc = "returned"
  /\ encoder = "img_to_rgb565"
  /\ swap_bytes
  /\ byteorder = "little"
  /\ Len(pixels) = 2
  /\ HighByte(1) # LowByte(1)
  /\ HighByte(2) # LowByte(2)

\* palette index i is an entry nearest to colour c, and the lowest such index
NearestLowest(pal, c, i) ==
  /\ \A p \in Entries(pal) : DistSq(pal[i + 1], c) <= DistSq(p, c)
  /\ \A j \in 1..i : DistSq(pal[j], c) > DistSq(pal[i + 1], c)

\* C9 as claimed: each pixel value is mapped to a palette entry of minimum
\* squared RGB distance, the lowest index among equally near entries.
C9_NearestToPixel ==
  (pc = "quantized" /\ encoder \in Paletted) =>
    \A k \in 1..Len(pixels) : NearestLowest(PaletteOf(encoder), pixels[k], indexed[k])

\* C9 amended: the colour looked up for a pixel (its value and the diffused
\* error), with each channel rounded down to a multiple of 4, is mapped to a
\* palette entry of minimum squared RGB distance from that rounded colour,
\* the lowest index among equally near entries.
C9_NearestToCell ==
  (pc = "quantized" /\ encoder \in Paletted) =>
    \A k \in 1..Len(pixels) :
      NearestLowest(PaletteOf(encoder), CellOf(dithered[k]), indexed[k])

\* C9's case: a pixel nearer to green whose rounded colour is as near to blue
C9_Witness ==
  /\ pc = "quantized"
  /\ encoder = "img_to_array"
  /\ pixels = <<(<<0, 129, 128>>)>>
  /\ indexed = <<5>>

\* C10 as claimed: img_to_array quantizes without dithering, the index of
\* each pixel is the one its own value is looked up to.
C10_ArrayPointwise ==
  (pc = "quantized" /\ encoder = "img_to_array") =>
    \A k \in 1..Len(pixels) : indexed[k] = Lookup(Palette7, pixels[k])

\* every pixel before pixel k is exactly a colour of the palette
ExactBefore(k) == \A j \in 1..(k - 1) : pixels[j] \in Entries(PaletteOf(encoder))

\* C10 amended: both encoders diffuse the quantization error; a pixel is
\* looked up by its own value alone where no error reaches it, as when every
\* pixel before it is exactly a palette colour.
C10_PointwiseWithoutError ==
  (pc = "quantized" /\ encoder \in Paletted) =>
    \A k \in 1..Len(pixels) :
      ExactBefore(k) =>
        /\ dithered[k] = pixels[k]
        /\ indexed[k] = Lookup(PaletteOf(encoder), pixels[k])

\* C10's case: in img_to_array a grey pixel after a white one is looked up
\* by its own value, and the grey pixel after that one is not
C10_Witness ==
  /\ pc = "quantized"
  /\ encoder = "img_to_array"
  /\ Len(pixels) = 3
  /\ pixels[1] = White
  /\ pixels[2] = <<124, 124, 124>>
  /\ pixels[3] = <<124, 124, 124>>
  /\ indexed[2] = Lookup(Palette7, pixels[2])
  /\ indexed[3] # Lookup(Palette7, pixels[3])

\* the image as it enters the resize: the source, rotated for landscape
Oriented ==
  IF encoder \in Paletted /\ Lower(orientation) = "landscape" THEN Rotate90(source)
  ELSE source

\* C12: a crop is centred: left = (new_w - target_w) // 2 and
\* top = (new_h - target_h) // 2, the slice is exactly target_w x target_h,
\* the margins on opposite sides differ by at most 1, and the 800x600 source
\* is resized to 2133x1600 and cropped with margins 466 and 467.
C12_CropCentred ==
  box # <<>> =>
    /\ 2 * box[1] <= new_width - target_width
    /\ new_width - target_width <= 2 * box[1] + 1
    /\ 2 * box[2] <= new_height - target_height
    /\ new_height - target_height <= 2 * box[2] + 1
    /\ box[3] - box[1] = target_width
    /\ box[4] - box[2] = target_height
    /\ image = Size(target_width, target_height)
    /\ (new_width - box[3]) - box[1] \in {0, 1}
    /\ (new_height - box[4]) - box[2] \in {0, 1}
    /\ (Oriented = Size(800, 600) /\ encoder \in Paletted) =>
         /\ new_width = 2133
         /\ new_height = 1600
         /\ box[1] = 466
         /\ new_width - box[3] = 467

\* C12's case: the 800x600 source, cropped
C12_Witness ==
  /\ pc = "fitted"
  /\ encoder = "img_to_array"
  /\ orientation = "portrait"
  /\ source = Size(800, 600)
  /\ box = <<466, 0, 1666, 1600>>

\* Python's round() of a positive float: the nearest integer, ties to even
FRound(x) ==
  IF x = FZero \/ x.e < -1 THEN 0
  ELSE IF x.e >= MantBits - 1 THEN BitsNat(x.m) * 2^(x.e - (MantBits - 1))
  ELSE LET whole == IF x.e < 0 THEN 0 ELSE BitsNat(SubSeq(x.m, 1, x.e + 1))
           half  == x.m[x.e + 2]
           rest  == \E i \in (x.e + 3)..MantBits : x.m[i] = 1
       IN IF half = 1 /\ (rest \/ whole % 2 = 1) THEN whole + 1 ELSE whole

\* the size the claim gives the resized image
RoundedSize(im, tw, th) ==
  LET scale == ResizeRatio(im, tw, th)
  IN Size(FRound(FMulInt(im.width, scale)), FRound(FMulInt(im.height, scale)))

\* C13: the image is resized to round(width * scale) x round(height * scale),
\* the nearest integers, with scale = max(target_width / width,
\* target_height / height).
C13_RoundedSize ==
  Scaled => Size(new_width, new_height) = RoundedSize(Oriented, target_width, target_height)

\* the nibbles of a packed buffer, the high nibble of each byte first
Unpack(bytes) == [k \in 1..(2 * Len(bytes)) |-> Nibble(bytes, k)]

\* C15: unpacking the packed buffer recovers the code sequence, followed by
\* one white code when its length is odd, for every sequence that is packed.
C15_UnpackRoundTrip ==
  (encoder \in Paletted /\ pc \in {"returned", "raised"}) =>
    /\ pc = "returned"
    /\ Unpack(out) = IF Len(Codes) % 2 = 0 THEN Codes ELSE Append(Codes, WhiteCode)

\* the 8-bit channels decoded from an RGB565 value by shifting the fields back
Decode565(v) ==
  <<BitAnd(ShiftR(v, 8), 248), BitAnd(ShiftR(v, 3), 252), BitAnd(ShiftL(v, 3), 248)>>

Abs(n) == IF n < 0 THEN 0 - n ELSE n

\* C16: decoding the unswapped RGB565 value gives back R within 7, G within
\* 3 and B within 7 of the pixel's channels.
C16_DecodeWithin ==
  (pc = "encoded" /\ encoder = "img_to_rgb565") =>
    \A k \in 1..Len(pixels) :
      LET d == Decode565(rgb565[k])
      IN /\ Abs(pixels[k][1] - d[1]) <= 7
         /\ Abs(pixels[k][2] - d[2]) <= 3
         /\ Abs(pixels[k][3] - d[3]) <= 7

\* C16's case: a pixel that loses the most in every channel
C16_Witness ==
  /\ pc = "encoded"
  /\ encoder = "img_to_rgb565"
  /\ pixels = <<(<<7, 3, 7>>)>>
  /\ Decode565(rgb565[1]) = <<0, 0, 0>>

\* C18: for every source of at least 1x1 and every valid profile no step of
\* the conversion raises an error.
C18_NoError == pc # "raised"

\* C14: every code path that orients a source for the e-paper target rotates
\* exactly when the requested orientation is landscape, and by 90 degrees.
C14_SameRotation ==
  pc # "entry" =>
    /\ angle \in {0, 90}
    /\ angle = 90 <=> Lower(orientation) = "landscape"

\* C17: a conversion with target_width * target_height = 0 fails with
\* InvalidDimensions and returns no bytes.
C17_InvalidDimensions ==
  (target_width * target_height = 0 /\ pc \in {"returned", "raised"}) =>
    /\ pc = "raised"
    /\ error = "InvalidDimensions"
    /\ out_len = -1

\* C19: a call leaves the caller's image as it was and changes no object
\* but its own: every object a step changes was created by the call that
\* takes the step.
C19_SourceUnchanged ==
  [][\A o \in Objects :
       heap'[o] # heap[o] => /\ o[2] # "source"
                             /\ frame'[o[1]] # frame[o[1]]]_vars

\* C19's case: a call that converted and rotated its image has returned, the
\* other call has returned having used the caller's image as it was, and
\* both images are as they were given
C19_Witness ==
  /\ frame # <<>>
  /\ \A c \in Calls : frame[c].pc = "returned" /\ heap[<<c, "source">>] = frame[c].given
  /\ frame[1].given.mode = "RGBA"
  /\ frame[1].encoder = "img_to_array"
  /\ frame[1].orientation = "landscape"
  /\ frame[2].given.mode = "RGB"
  /\ frame[2].orientation # "landscape"

\* the bytes a call with these arguments returns when nothing else runs
Alone(f) ==
  LET rgb == IF f.given.mode # "RGB" THEN ConvertRGB(f.given) ELSE f.given
      im  == IF f.encoder \in Paletted /\ Lower(f.orientation) = "landscape"
             THEN Rotated(rgb) ELSE rgb
      ix  == Dither(PaletteOf(f.encoder), im.data, im.width).idx
  IN IF f.encoder = "img_to_array"
     THEN [k \in 1..(Len(ix) \div 2) |-> ArrayByte(ix, 2 * (k - 1))]
     ELSE IF f.encoder = "img_to_epaper_4bit"
     THEN NibbleBuf([k \in 1..Len(ix) |-> index_to_code[ix[k] + 1]])
     ELSE ToBytes([k \in 1..Len(im.data) |->
                     IF f.swap_bytes THEN SwapWord(Rgb565Value(im.data[k]))
                     ELSE Rgb565Value(im.data[k])], byteorder)

\* C20: in every interleaving of the calls, a call that returns, returns the
\* bytes it returns when run alone.
C20_AsAlone ==
  frame # <<>> => \A c \in Calls : frame[c].pc = "returned" => frame[c].result = Alone(frame[c])

\* C20's case: a call has returned its bytes while the other call, of
\* another encoder, is in the middle of its own pack
C20_Witness ==
  /\ frame # <<>>
  /\ frame[1].pc = "returned"
  /\ frame[1].encoder = "img_to_array"
  /\ frame[1].result = Alone(frame[1])
  /\ frame[1].result # <<0>>
  /\ frame[2].encoder = "img_to_epaper_4bit"
  /\ frame[2].pc = "mapped"

\* two calls were given the same encoder, the same arguments and images of
\* the same mode, size and pixels
SameInput(f, g) ==
  /\ f.encoder = g.encoder
  /\ f.orientation = g.orientation
  /\ f.swap_bytes = g.swap_bytes
  /\ f.given.mode = g.given.mode
  /\ f.given = g.given

ColourStages == {"quantized", "returned"}

\* C21: every conversion runs the geometric fit first and then one colour
\* branch, the one of its colour format (quantize and pack, or the RGB565
\* encoding), and the fit honours the profile's orientation in the paletted
\* and in the RGB565 branch alike: a landscape profile's image is rotated.
C21_FitThenColour ==
  /\ [](pc \in ({"fitted"} \cup ColourStages) /\ Lower(orientation) = "landscape"
          => angle = RotateAngle)
  /\ [][/\ pc' \in ColourStages => pc \in {"fitted", "quantized"}
        /\ pc' = "quantized" => encoder \in Paletted
        /\ (pc = "fitted" /\ pc' = "returned") => encoder = "img_to_rgb565"]_vars

\* the number of palette slots the code fills with colours of its own
RealSlots == IF encoder = "img_to_array" THEN Len(Colours7) ELSE Len(Colours6)

\* C22: the palettes are padded to 256 entries with black, yet every index
\* the quantizer emits is below the number of real slots (7 in img_to_array,
\* 6 in img_to_epaper_4bit); so every value (a << 4) | b that img_to_array
\* packs fits in a byte and every index_to_code lookup of img_to_epaper_4bit
\* is in bounds.
C22_IndexInRange ==
  (encoder \in Paletted /\ pc # "fitted") =>
    /\ \A k \in 1..Len(indexed) : indexed[k] < RealSlots
    /\ encoder = "img_to_array" =>
         \A i \in 0..(Len(indexed) - 1) : i % 2 = 0 => ArrayByte(indexed, i) <= 255
    /\ encoder = "img_to_epaper_4bit" =>
         \A k \in 1..Len(indexed) : indexed[k] + 1 \in DOMAIN index_to_code

\* C22's case: a call returned whose image has a black pixel, which is as
\* near to every padding entry as to the real black slot, and another colour
C22_Witness ==
  /\ pc = "returned"
  /\ encoder \in Paletted
  /\ \E k \in 1..Len(pixels) : pixels[k] = Black /\ PaletteOf(encoder)[indexed[k] + 1] = Black
  /\ \E k \in 1..Len(pixels) : pixels[k] = Red /\ indexed[k] = 3

\* C23: after migrate_db has completed, from any starting schema,
\* verify_migration passes: every photo_frame row has a playlist_id and no
\* playlist_entry row has a frame_id.
C23_VerifyPasses == mig # <<>> /\ mig.pc = "done" => verify_migration(db)

\* the playlists that custom_playlist_id referred to before the migration
OldPlaylists == IF table_exists(db0, "custom_playlist") THEN db0.custom_playlist
                ELSE db0.playlist

\* C24: the migration loses no playlist membership: no playlist_entry row is
\* deleted, an entry that was in frame F's playlist ends with the playlist_id
\* F has, and an entry that was in a custom playlist ends with that playlist
\* as its playlist_id.
C24_MembershipKept ==
  mig # <<>> /\ mig.pc = "done" =>
    \A e0 \in db0.playlist_entry :
      \E e \in db.playlist_entry :
        /\ e.id = e0.id
        /\ e0.frame_id # NullFrame =>
             \E f \in db.photo_frame : f.id = e0.frame_id /\ e.playlist_id = f.playlist_id
        /\ e0.custom_playlist_id # NullId =>
             /\ e.playlist_id = e0.custom_playlist_id
             /\ \E r \in OldPlaylists : r.id = e.playlist_id /\ r \in db.playlist

\* C25: migrate_db is idempotent, also after an interruption between two
\* commits: however often it was killed and run again, and when it is run
\* again after it completed, the database it completes with is the one a
\* single uninterrupted run gives (no further playlist, no other playlist_id).
C25_Idempotent == mig # <<>> /\ mig.pc = "done" => db = migrate_db(db0)

\* C26: for every combination of --create, --migrate, --backup and --force,
\* main removes an existing database file only when --create and --force are
\* both given; --create on a database that exists, without --force, ends
\* with status 1 and neither removes nor recreates the database.
C26_RemoveOnlyForced ==
  cli # <<>> =>
    /\ cli.removed => cli.existed /\ cli.given.create /\ cli.given.force
    /\ (cli.given.create /\ cli.existed /\ ~cli.given.force) =>
         /\ ~cli.removed /\ ~cli.created /\ cli.exists
         /\ cli.pc = "exit" => cli.rc = 1

\* C26's case: --create --force on a database that exists, with --migrate
\* and --backup as well: the database was backed up, removed and made anew
C26_Witness ==
  /\ cli # <<>>
  /\ cli.pc = "exit"
  /\ cli.given.create /\ cli.given.force /\ cli.given.migrate /\ cli.given.backup
  /\ cli.existed /\ cli.backups = 1
  /\ cli.removed /\ cli.created /\ cli.exists /\ cli.rc = 0

\* the interval in ticks, and the windows (k*interval, (k+1)*interval]
IntervalTicks == TicksPerSecond * IntervalSeconds(sync.sleep_interval)
InWindow(b, k) == k * IntervalTicks < b /\ b <= (k + 1) * IntervalTicks

\* C27: get_next_sync_time returns the smallest multiple r of the interval
\* (sleep_interval * 60 seconds, counted from the UTC epoch) with r >= base,
\* so base <= r < base + interval, and two frames of a group whose base times
\* are in the same window (k*interval, (k+1)*interval] get the same time.
C27_NextBoundary ==
  sync # <<>> =>
    /\ \A i \in {1, 2} :
         sync.result[i] # -1 =>
           LET r == sync.result[i] * TicksPerSecond
           IN /\ r % IntervalTicks = 0
              /\ sync.base[i] <= r
              /\ r < sync.base[i] + IntervalTicks
    /\ (sync.result[1] # -1 /\ sync.result[2] # -1
          /\ \E w \in Windows, d \in {-1, 0, 1} :
               InWindow(sync.base[1], w + d) /\ InWindow(sync.base[2], w + d))
         => sync.result[1] = sync.result[2]

\* C27's case: two frames of a five-minute group, one just after a boundary
\* a million intervals after the epoch, one on the next boundary, were given
\* that next boundary
C27_Witness ==
  /\ sync # <<>>
  /\ sync.sleep_interval = 10
  /\ sync.base = <<1000000 * IntervalTicks + 1, 1000001 * IntervalTicks>>
  /\ sync.result = <<1000001 * 300, 1000001 * 300>>

CyclicWindow(start, end) ==
  {(start + j) % HoursPerDay : j \in 0..(((end - start + HoursPerDay) % HoursPerDay) - 1)}

\* C29: is_in_deep_sleep is true exactly when deep sleep is enabled, both
\* hours are set and the current UTC hour is in the half-open window
\* [start, end) taken cyclically over 0..23 (start <= h < end; h >= start or
\* h < end when the window crosses midnight; never when start = end).
C29_DeepSleepWindow ==
  (status # <<>> /\ status.pc = "returned") =>
    (status.deep_sleep <=>
       /\ photo_frame.deep_sleep_enabled = "True"
       /\ photo_frame.deep_sleep_start # None
       /\ photo_frame.deep_sleep_end # None
       /\ HourOf(status.current_time)
            \in CyclicWindow(photo_frame.deep_sleep_start, photo_frame.deep_sleep_end))

\* C29's case: a window that crosses midnight, asked about in its last hour
C29_Witness ==
  /\ status # <<>>
  /\ status.pc = "returned"
  /\ photo_frame.deep_sleep_enabled = "True"
  /\ photo_frame.deep_sleep_start = 22
  /\ photo_frame.deep_sleep_end = 6
  /\ HourOf(status.current_time) = 5
  /\ status.deep_sleep

====
